---- MODULE Spec2Model ----
(***************************************************************************)
(* Model of ReleaseNotesGenerator (src/src/core/releases.ts).              *)
(*                                                                         *)
(* A JavaScript string is a sequence of one-character strings; markup      *)
(* literals of the templates are single atoms.  An optional value          *)
(* (T | undefined) is a sequence of length 0 (undefined) or 1.  A          *)
(* JavaScript object used as a map is the sequence of its [k, v] entries   *)
(* in property-enumeration order.                                          *)
(***************************************************************************)
EXTENDS Integers, Sequences, FiniteSets, TLC

\* ------------------------------------------------------------------------
\* Optional values
\* ------------------------------------------------------------------------
Undefined == <<>>

Some(x) == <<x>>

IsUndefined(o) == o = <<>>

\* o ?? d
OrElse(o, d) == IF o = <<>> THEN d ELSE o[1]

\* ------------------------------------------------------------------------
\* String primitives (String.prototype.*)
\* ------------------------------------------------------------------------
Digits == {"0", "1", "2", "3", "4", "5", "6", "7", "8", "9"}

LowerSeq == <<"a", "b", "c", "d", "e", "f", "g", "h", "i", "j", "k", "l", "m",
              "n", "o", "p", "q", "r", "s", "t", "u", "v", "w", "x", "y", "z">>

UpperSeq == <<"A", "B", "C", "D", "E", "F", "G", "H", "I", "J", "K", "L", "M",
              "N", "O", "P", "Q", "R", "S", "T", "U", "V", "W", "X", "Y", "Z">>

Range(f) == {f[i] : i \in DOMAIN f}

Lowers == Range(LowerSeq)

Uppers == Range(UpperSeq)

\* c.toUpperCase() for a single character
ToUpperChar(c) ==
    IF c \in Lowers THEN UpperSeq[CHOOSE i \in 1..26 : LowerSeq[i] = c] ELSE c

\* c.toLowerCase() for a single character
ToLowerChar(c) ==
    IF c \in Uppers THEN LowerSeq[CHOOSE i \in 1..26 : UpperSeq[i] = c] ELSE c

ToLowerCase(s) == [i \in 1..Len(s) |-> ToLowerChar(s[i])]

\* s.slice(from) with a 0-based start index
Slice(s, from) == SubSeq(s, from + 1, Len(s))

\* sub occurs in s at the 1-based position i
OccursAt(s, sub, i) ==
    /\ i >= 1
    /\ i + Len(sub) - 1 <= Len(s)
    /\ SubSeq(s, i, i + Len(sub) - 1) = sub

\* 1-based position of the first occurrence of sub in s, 0 when there is none
\* (s.indexOf(sub) + 1)
IndexOf(s, sub) ==
    IF \E i \in 1..(Len(s) + 1) : OccursAt(s, sub, i)
    THEN CHOOSE i \in 1..(Len(s) + 1) :
            /\ OccursAt(s, sub, i)
            /\ \A j \in 1..(i - 1) : ~OccursAt(s, sub, j)
    ELSE 0

RECURSIVE GetSubstitution(_, _, _, _)
\* the text String.prototype.replace inserts for the replacement string rep
\* when the pattern is a string (no capture groups): "$$" inserts "$", "$&"
\* the matched text, "$`" the text before the match, "$'" the text after it,
\* and every other character, a "$" before anything else included, inserts
\* itself
GetSubstitution(rep, matched, before, after) ==
    IF rep = <<>> THEN <<>>
    ELSE IF rep[1] = "$" /\ Len(rep) >= 2 /\ rep[2] \in {"$", "&", "`", "'"}
    THEN (CASE rep[2] = "$" -> <<"$">>
            [] rep[2] = "&" -> matched
            [] rep[2] = "`" -> before
            [] rep[2] = "'" -> after)
         \o GetSubstitution(SubSeq(rep, 3, Len(rep)), matched, before, after)
    ELSE <<rep[1]>> \o GetSubstitution(Tail(rep), matched, before, after)

\* s.replace(sub, rep) with a string pattern: the first occurrence only
Replace(s, sub, rep) ==
    LET i == IndexOf(s, sub)
        before == SubSeq(s, 1, i - 1)
        after == SubSeq(s, i + Len(sub), Len(s))
    IN IF i = 0 THEN s
       ELSE before \o GetSubstitution(rep, sub, before, after) \o after

RECURSIVE ReplaceAll(_, _, _)
\* s.replaceAll(sub, rep) for a non-empty string pattern
ReplaceAll(s, sub, rep) ==
    LET i == IndexOf(s, sub)
    IN IF i = 0 \/ sub = <<>> THEN s
       ELSE SubSeq(s, 1, i - 1) \o rep
              \o ReplaceAll(SubSeq(s, i + Len(sub), Len(s)), sub, rep)

WhiteSpace == {" ", "\t", "\n"}

RECURSIVE TrimStart(_)
TrimStart(s) ==
    IF s # <<>> /\ s[1] \in WhiteSpace THEN TrimStart(Tail(s)) ELSE s

RECURSIVE TrimEnd(_)
TrimEnd(s) ==
    IF s # <<>> /\ s[Len(s)] \in WhiteSpace
    THEN TrimEnd(SubSeq(s, 1, Len(s) - 1)) ELSE s

\* s.trim()
Trim(s) == TrimEnd(TrimStart(s))

RECURSIVE Split(_, _)
\* s.split(sep) for a one-character separator
Split(s, sep) ==
    LET i == IndexOf(s, <<sep>>)
    IN IF i = 0 THEN <<s>>
       ELSE <<SubSeq(s, 1, i - 1)>> \o Split(SubSeq(s, i + 1, Len(s)), sep)

RECURSIVE Join(_, _)
\* parts.join(sep)
Join(parts, sep) ==
    IF parts = <<>> THEN <<>>
    ELSE IF Len(parts) = 1 THEN parts[1]
    ELSE parts[1] \o sep \o Join(Tail(parts), sep)

\* arr.includes(x)
Includes(arr, x) == \E i \in 1..Len(arr) : arr[i] = x

\* arr.filter(p) is SelectSeq(arr, p); arr.map(f) is
Map(arr, f(_)) == [i \in 1..Len(arr) |-> f(arr[i])]

\* ------------------------------------------------------------------------
\* JavaScript objects used as maps: the sequence of entries [k, v] in
\* property-enumeration order (array-index keys in ascending numeric order
\* first, then the other keys in creation order)
\* ------------------------------------------------------------------------
DigitVal(c) == CHOOSE n \in 0..9 : ToString(n) = c

RECURSIVE LexLess(_, _)
\* a < b for digit strings of one length
LexLess(a, b) ==
    /\ a # <<>>
    /\ \/ DigitVal(a[1]) < DigitVal(b[1])
       \/ a[1] = b[1] /\ LexLess(Tail(a), Tail(b))

\* a < b for canonical decimal strings
NumLess(a, b) == Len(a) < Len(b) \/ (Len(a) = Len(b) /\ LexLess(a, b))

\* 2^32 - 2, the largest array index
MaxArrayIndex == <<"4", "2", "9", "4", "9", "6", "7", "2", "9", "4">>

\* k is the canonical decimal form of an array index
IsArrayIndex(k) ==
    /\ k # <<>>
    /\ \A i \in 1..Len(k) : k[i] \in Digits
    /\ (Len(k) = 1 \/ k[1] # "0")
    /\ (k = MaxArrayIndex \/ NumLess(k, MaxArrayIndex))

ObjKeys(o) == [i \in 1..Len(o) |-> o[i].k]

ObjHas(o, k) == \E i \in 1..Len(o) : o[i].k = k

\* o[k] for a key the object has
ObjGet(o, k) == o[CHOOSE i \in 1..Len(o) : o[i].k = k].v

\* number of entries that enumerate before a new key k
InsertPos(o, k) ==
    IF IsArrayIndex(k)
    THEN Cardinality({i \in 1..Len(o) :
                        IsArrayIndex(o[i].k) /\ NumLess(o[i].k, k)})
    ELSE Len(o)

\* o[k] = v
ObjSet(o, k, v) ==
    IF ObjHas(o, k)
    THEN [i \in 1..Len(o) |-> IF o[i].k = k THEN [k |-> k, v |-> v] ELSE o[i]]
    ELSE LET p == InsertPos(o, k)
         IN SubSeq(o, 1, p) \o <<[k |-> k, v |-> v]>> \o SubSeq(o, p + 1, Len(o))

RECURSIVE ObjAssign(_, _)
\* { ...a, ...b }: the entries of b are set on a copy of a, in b's order
ObjAssign(a, b) ==
    IF b = <<>> THEN a
    ELSE ObjAssign(ObjSet(a, b[1].k, b[1].v), Tail(b))

\* the object written as the literal { k1: v1, k2: v2, ... }
ObjLiteral(entries) == ObjAssign(<<>>, entries)

\* ------------------------------------------------------------------------
\* Title Sanitizer (sanitizeTitle and its helpers)
\* ------------------------------------------------------------------------
\* for (const emoji of emojisToRemoveFromTitle) title = title.replace(emoji, "")
RECURSIVE StripEmojis(_, _)
StripEmojis(title, emojis) ==
    IF emojis = <<>> THEN title
    ELSE StripEmojis(Replace(title, emojis[1], <<>>), Tail(emojis))

\* for (const wordToReplace in wordReplacements) title = title.replace(...)
RECURSIVE ReplaceWords(_, _)
ReplaceWords(title, repl) ==
    IF repl = <<>> THEN title
    ELSE ReplaceWords(Replace(title, repl[1].k, repl[1].v), Tail(repl))

\* firstWord.charAt(0).toUpperCase() + firstWord.slice(1)
Capitalize(w) ==
    IF w = <<>> THEN w ELSE <<ToUpperChar(w[1])>> \o Slice(w, 1)

RECURSIVE ReplaceFirstWordCapitalizes(_, _)
\* ReplaceFirstWord that writes the capitalized first word back to sections
ReplaceFirstWordCapitalizes(sections, repl) ==
    IF repl = <<>> THEN sections
    ELSE IF Capitalize(sections[1]) = repl[1].k
         THEN [sections EXCEPT ![1] = repl[1].v]
         ELSE ReplaceFirstWordCapitalizes(
                  [sections EXCEPT ![1] = Capitalize(sections[1])], Tail(repl))

\* for (const wordToReplace in firstWordReplacements) { ... break; }
RECURSIVE ReplaceFirstWord(_, _)
ReplaceFirstWord(sections, repl) ==
    IF repl = <<>> THEN sections
    ELSE IF Capitalize(sections[1]) = repl[1].k
         THEN [sections EXCEPT ![1] = repl[1].v]
         ELSE ReplaceFirstWord(sections, Tail(repl))

BoldWord == <<"b", "o", "l", "d">>

ItalicWord == <<"i", "t", "a", "l", "i", "c">>

\* the recognised styles of one styledWordsList value
StylesOf(spec) ==
    SelectSeq(Split(Trim(ToLowerCase(spec)), ","),
              LAMBDA st : st = BoldWord \/ st = ItalicWord)

\* `${italicSyntax}${boldSyntax}${text}${boldSyntax}${italicSyntax}`
Wrap(text, isBold, isItalic) ==
    LET italicSyntax == IF isItalic THEN <<"_">> ELSE <<>>
        boldSyntax == IF isBold THEN <<"*", "*">> ELSE <<>>
    IN italicSyntax \o boldSyntax \o text \o boldSyntax \o italicSyntax

\* for (const wordToStyle in styledWordsList) title = title.replace(...)
RECURSIVE StyleWords(_, _)
StyleWords(title, styled) ==
    IF styled = <<>> THEN title
    ELSE LET styles == StylesOf(styled[1].v)
             word == styled[1].k
         IN StyleWords(Replace(title, word,
                               Wrap(word, Includes(styles, BoldWord),
                                    Includes(styles, ItalicWord))),
                       Tail(styled))

AlphaDash == Lowers \cup Uppers \cup {"-"}

IdentChars == Digits \cup AlphaDash

RECURSIVE SkipWhile(_, _, _)
\* the position after the longest run of characters of cls that starts at i
SkipWhile(s, i, cls) ==
    IF i <= Len(s) /\ s[i] \in cls THEN SkipWhile(s, i + 1, cls) ELSE i

\* (0|[1-9]\d*) at position i: the position after the match, 0 for no match
MatchNumeric(s, i) ==
    IF i > Len(s) THEN 0
    ELSE IF s[i] = "0" THEN i + 1
    ELSE IF s[i] \in Digits THEN SkipWhile(s, i + 1, Digits)
    ELSE 0

\* (\.(0|[1-9]\d*))? at position i
MatchOptDotNumeric(s, i) ==
    IF i <= Len(s) /\ s[i] = "." /\ MatchNumeric(s, i + 1) # 0
    THEN MatchNumeric(s, i + 1) ELSE i

\* (?:0|[1-9]\d*|\d*[a-zA-Z-][0-9a-zA-Z-]*) at position i
MatchPreIdent(s, i) ==
    IF i > Len(s) THEN 0
    ELSE IF s[i] = "0" THEN i + 1
    ELSE IF s[i] \in Digits THEN SkipWhile(s, i + 1, Digits)
    ELSE IF s[i] \in AlphaDash THEN SkipWhile(s, i + 1, IdentChars)
    ELSE 0

\* [0-9a-zA-Z-]+ at position i
MatchBuildIdent(s, i) ==
    IF i <= Len(s) /\ s[i] \in IdentChars
    THEN SkipWhile(s, i + 1, IdentChars) ELSE 0

RECURSIVE MatchDotIdents(_, _, _)
\* (?:\.<identifier>)* at position i
MatchDotIdents(s, i, pre) ==
    LET e == IF i <= Len(s) /\ s[i] = "."
             THEN IF pre THEN MatchPreIdent(s, i + 1)
                         ELSE MatchBuildIdent(s, i + 1)
             ELSE 0
    IN IF e = 0 THEN i ELSE MatchDotIdents(s, e, pre)

\* (?:-(<pre-release>))? at position i
MatchOptPreRelease(s, i) ==
    IF i <= Len(s) /\ s[i] = "-" /\ MatchPreIdent(s, i + 1) # 0
    THEN MatchDotIdents(s, MatchPreIdent(s, i + 1), TRUE) ELSE i

\* (?:\+(<build>))? at position i
MatchOptBuild(s, i) ==
    IF i <= Len(s) /\ s[i] = "+" /\ MatchBuildIdent(s, i + 1) # 0
    THEN MatchDotIdents(s, MatchBuildIdent(s, i + 1), FALSE) ELSE i

\* withoutPrefixVersionRegex at position i
MatchVersionAt(s, i) ==
    LET a == MatchNumeric(s, i)
    IN IF a = 0 THEN 0
       ELSE MatchOptBuild(s, MatchOptPreRelease(s,
                MatchOptDotNumeric(s, MatchOptDotNumeric(s, a))))

\* withPrefixVersionRegex at position i
MatchPrefixedAt(s, i) ==
    IF i <= Len(s) /\ s[i] = "v" THEN MatchVersionAt(s, i + 1) ELSE 0

RECURSIVE MatchAllFrom(_, _, _)
\* title.match(regex) with the g flag: the matched substrings, left to right
MatchAllFrom(s, i, prefixed) ==
    IF i > Len(s) THEN <<>>
    ELSE LET e == IF prefixed THEN MatchPrefixedAt(s, i)
                  ELSE MatchVersionAt(s, i)
         IN IF e = 0 THEN MatchAllFrom(s, i + 1, prefixed)
            ELSE <<SubSeq(s, i, e - 1)>> \o MatchAllFrom(s, e, prefixed)

isFullVersion(version) ==
    IF version = <<>> THEN FALSE ELSE Len(Split(version, ".")) >= 3

\* resolveVersionToFull throws "Cannot resolve version"
ResolveThrows(version) ==
    ~isFullVersion(version) /\ Len(Split(version, ".")) \notin {1, 2}

\* resolveVersionToFull that appends one ".0" whatever is missing
resolveVersionToFullOneZero(version) ==
    IF isFullVersion(version) THEN version ELSE version \o <<".", "0">>

resolveVersionToFull(version) ==
    IF isFullVersion(version) THEN version
    ELSE IF Len(Split(version, ".")) = 1 THEN version \o <<".", "0", ".", "0">>
    ELSE version \o <<".", "0">>

\* RemovePrefixes that leaves the "v" prefixes in the title
RemovePrefixesKeepsV(title, versions) == title

\* for (const version of prefixedVersions) title = title.replace(version, ...)
RECURSIVE RemovePrefixes(_, _)
RemovePrefixes(title, versions) ==
    IF versions = <<>> THEN title
    ELSE LET version == versions[1]
             versionWithoutPrefix ==
                 IF version[1] = "v" THEN Slice(version, 1) ELSE version
         IN RemovePrefixes(Replace(title, version, versionWithoutPrefix),
                           Tail(versions))

\* for (const version of notPrefixedVersions) title = title.replace(version, ...)
RECURSIVE StyleVersions(_, _, _, _)
StyleVersions(title, versions, isBold, isItalic) ==
    IF versions = <<>> THEN title
    ELSE LET version == versions[1]
         IN StyleVersions(
                Replace(title, version,
                        Wrap(<<"v">> \o resolveVersionToFull(version),
                             isBold, isItalic)),
                Tail(versions), isBold, isItalic)

\* the title after the first four stages (lines 767-812)
TitleBeforeVersions(settings, title) ==
    LET t1 == StripEmojis(title, OrElse(settings.emojisToRemoveFromTitle, <<>>))
        t2 == ReplaceWords(t1, OrElse(settings.wordReplacements, <<>>))
        sections == ReplaceFirstWord(Split(t2, " "),
                                     OrElse(settings.firstWordReplacements, <<>>))
        t3 == Join(sections, <<" ">>)
    IN StyleWords(t3, OrElse(settings.styledWordsList, <<>>))

\* the title once the "v" prefixes are removed (lines 823-829)
TitleWithoutPrefixes(settings, title) ==
    LET t4 == TitleBeforeVersions(settings, title)
    IN RemovePrefixes(t4, MatchAllFrom(t4, 1, TRUE))

\* sanitizeTitle throws
SanitizeThrows(settings, title) ==
    LET t5 == TitleWithoutPrefixes(settings, title)
        notPrefixedVersions == MatchAllFrom(t5, 1, FALSE)
    IN \E i \in 1..Len(notPrefixedVersions) :
          ResolveThrows(notPrefixedVersions[i])

sanitizeTitle(settings, title) ==
    LET t5 == TitleWithoutPrefixes(settings, title)
    IN StyleVersions(t5, MatchAllFrom(t5, 1, FALSE),
                     settings.boldedVersions, settings.italicVersions)

\* ------------------------------------------------------------------------
\* Categorizer and renderer
\* ------------------------------------------------------------------------
H2Open == "<h2 align=\"center\" style=\"font-weight: bold;\">"

H2Close == "</h2>"

\* isNothing for a string | undefined
isNothing(value) == value = Undefined \/ value[1] = <<>>

createCategoryHeader(categoryName) ==
    IF categoryName = Undefined THEN <<>>
    ELSE <<H2Open>> \o categoryName[1] \o <<H2Close>>

createMarkDownLink(issueOrPrNumber, url) ==
    <<"[", "#", ToString(issueOrPrNumber), "]", "(">> \o url \o <<")">>

buildLineItem(issueOrPr, itemNumber) ==
    <<ToString(itemNumber + 1), ".", " ">>
        \o createMarkDownLink(issueOrPr.number, OrElse(issueOrPr.html_url, <<>>))
        \o <<" ", "-", " ">> \o issueOrPr.title \o <<".">>

\* the inner for loop of the two section builders
PushLineItems(lines, catIssues) ==
    lines \o [i \in 1..Len(catIssues) |-> buildLineItem(catIssues[i], i - 1)]

\* AddCategory without the test catIssues.length > 0 (lines 616, 655)
AddCategoryKeepsEmpty(categorySection, secName, catLabel, catIssues) ==
    LET withHeader ==
            IF ~ObjHas(categorySection, secName)
            THEN ObjSet(categorySection, secName,
                        <<createCategoryHeader(catLabel) \o <<"\n">>>>)
            ELSE categorySection
    IN ObjSet(withHeader, secName,
              PushLineItems(ObjGet(withHeader, secName), catIssues))

\* one iteration of the for-in loop of a section builder, for the section
\* name secName, the mapped value catLabel and the matched items catIssues
AddCategory(categorySection, secName, catLabel, catIssues) ==
    IF Len(catIssues) > 0
    THEN LET withHeader ==
                 IF ~ObjHas(categorySection, secName)
                 THEN ObjSet(categorySection, secName,
                             <<createCategoryHeader(catLabel) \o <<"\n">>>>)
                 ELSE categorySection
         IN ObjSet(withHeader, secName,
                   PushLineItems(ObjGet(withHeader, secName), catIssues))
    ELSE categorySection

HasLabel(issue, name) == \E i \in 1..Len(issue.labels) : issue.labels[i] = name

HasType(issue, name) == issue.type # Undefined /\ issue.type[1] = name

RECURSIVE TypeSectionsLoop(_, _, _)
TypeSectionsLoop(categorySection, entries, issues) ==
    IF entries = <<>> THEN categorySection
    ELSE LET catName == entries[1].k
             catIssues == SelectSeq(issues, LAMBDA issue : HasType(issue, catName))
             notesCategoryName == Trim(ReplaceAll(catName, <<"-">>, <<" ">>))
         IN TypeSectionsLoop(
                AddCategory(categorySection, notesCategoryName,
                            entries[1].v, catIssues),
                Tail(entries), issues)

buildCategoryIssueTypeSections(categoryMappings, issues) ==
    TypeSectionsLoop(<<>>, categoryMappings, issues)

RECURSIVE LabelSectionsLoopByValue(_, _, _)
\* LabelSectionsLoop that matches item labels against the mapped value
LabelSectionsLoopByValue(categorySection, entries, issuesOrPrs) ==
    IF entries = <<>> THEN categorySection
    ELSE LET catName == entries[1].k
             catLabel == entries[1].v
             catIssues == SelectSeq(issuesOrPrs,
                             LAMBDA issue : HasLabel(issue, OrElse(catLabel, <<>>)))
         IN LabelSectionsLoopByValue(
                AddCategory(categorySection, catName, catLabel, catIssues),
                Tail(entries), issuesOrPrs)

RECURSIVE LabelSectionsLoop(_, _, _)
LabelSectionsLoop(categorySection, entries, issuesOrPrs) ==
    IF entries = <<>> THEN categorySection
    ELSE LET catName == entries[1].k
             catLabel == entries[1].v
             catIssues == SelectSeq(issuesOrPrs,
                                    LAMBDA issue : HasLabel(issue, catName))
         IN LabelSectionsLoop(
                AddCategory(categorySection, catName, catLabel, catIssues),
                Tail(entries), issuesOrPrs)

buildCategoryLabelSections(categoryMappings, issuesOrPrs) ==
    LabelSectionsLoop(<<>>, categoryMappings, issuesOrPrs)

\* issueCatLabels (lines 454-460): the trimmed values of the mapping
IssueCatLabels(settings) ==
    LET m == OrElse(settings.issueCategoryLabelMappings, <<>>)
    IN [i \in 1..Len(m) |-> Trim(m[i].v[1])]

\* issueTypeNames (lines 455-465): the trimmed keys of the mapping
IssueTypeNames(settings) ==
    LET m == OrElse(settings.issueCategoryIssueTypeMappings, <<>>)
    IN [i \in 1..Len(m) |-> Trim(m[i].k)]

\* otherCatIssues (lines 468-473)
OtherCatIssues(settings, issues) ==
    IF settings.otherCategoryName = Undefined THEN <<>>
    ELSE SelectSeq(issues, LAMBDA issue :
            LET hasNoCategoryLabels ==
                    \A i \in 1..Len(issue.labels) :
                        ~Includes(IssueCatLabels(settings), issue.labels[i])
                hasNoIssueType ==
                    \/ issue.type = Undefined
                    \/ ~Includes(IssueTypeNames(settings), Trim(issue.type[1]))
            IN hasNoCategoryLabels /\ hasNoIssueType)

\* otherCat (lines 475-476)
OtherCat(settings) ==
    <<[k |-> OrElse(settings.otherCategoryName, <<>>), v |-> Undefined]>>

PhVersion == "${VERSION}"

PhEnvironment == "${ENVIRONMENT}"

PhReleaseType == "${RELEASETYPE}"

PhRepoName == "${REPONAME}"

buildMilestoneName(settings) ==
    Replace(Replace(Replace(settings.milestoneName,
                            <<PhVersion>>, OrElse(settings.version, <<>>)),
                    <<PhEnvironment>>, OrElse(settings.releaseType, <<>>)),
            <<PhRepoName>>, OrElse(settings.repoName, <<>>))

H1Open == "<h1 align=\"center\" style=\"color: mediumseagreen;font-weight: bold;\">"

H1Close == "</h1>"

createNotesHeader(settings) ==
    LET headerText ==
            Replace(Replace(Replace(OrElse(settings.headerText, <<>>),
                                    <<PhVersion>>, OrElse(settings.version, <<>>)),
                            <<PhReleaseType>>, OrElse(settings.releaseType, <<>>)),
                    <<PhRepoName>>, OrElse(settings.repoName, <<>>))
        extraEmptyLine == IF settings.extraInfo = Undefined THEN <<>> ELSE <<"\n">>
    IN <<H1Open, "\n">> \o headerText \o <<"\n", H1Close>> \o extraEmptyLine

createExtraInfo(extraInfo) ==
    IF extraInfo = Undefined THEN <<>>
    ELSE <<H2Open>> \o extraInfo[1].title \o <<H2Close, "\n", "\n">>
            \o <<"<div align=\"center\">", "\n", "\n">>
            \o extraInfo[1].text
            \o <<"\n", "</div>", "\n">>

\* MergeSections with the first two spreads exchanged
MergeSectionsIssueLabelsFirst(typeSecs, issueSecs, prSecs, otherSecs) ==
    ObjAssign(ObjAssign(ObjAssign(ObjAssign(<<>>, issueSecs), typeSecs), prSecs),
              otherSecs)

RECURSIVE ObjAppendAll(_, _)
\* the entries of b added to a, the lines of a name both have concatenated
ObjAppendAll(a, b) ==
    IF b = <<>> THEN a
    ELSE ObjAppendAll(
             ObjSet(a, b[1].k,
                    IF ObjHas(a, b[1].k) THEN ObjGet(a, b[1].k) \o b[1].v
                    ELSE b[1].v),
             Tail(b))

\* MergeSections that appends to a section of an earlier pass
MergeSectionsAppending(typeSecs, issueSecs, prSecs, otherSecs) ==
    ObjAppendAll(ObjAppendAll(ObjAppendAll(ObjAppendAll(<<>>, typeSecs),
                                           issueSecs), prSecs), otherSecs)

\* { ...issueTypeCatSections, ...issueCatSections, ...prCatSections,
\*   ...otherIssueCatSection } (line 480)
MergeSections(typeSecs, issueSecs, prSecs, otherSecs) ==
    ObjAssign(ObjAssign(ObjAssign(ObjAssign(<<>>, typeSecs), issueSecs), prSecs),
              otherSecs)

\* lines 482-485: one entry `${catSection}\n` per merged section
SectionTexts(categorySections) ==
    [i \in 1..Len(categorySections) |->
        Join(categorySections[i].v, <<"\n">>) \o <<"\n">>]

\* lines 425-432 and 482-485
ReleaseNotesList(settings, categorySections) ==
    <<createNotesHeader(settings), createExtraInfo(settings.extraInfo)>>
        \o SectionTexts(categorySections)

\* ------------------------------------------------------------------------
\* State
\* ------------------------------------------------------------------------
VARIABLES
    settings,       \* the GeneratorSettings argument of the call
    env,            \* the process environment: an object name -> value
    tracker,        \* the repository on GitHub, as the clients observe it
    pc,             \* where the generateNotes call is
    clients,        \* labelClient / milestoneClient / repoClient of the instance
    val,            \* the two validateSettings runs: "bg" started by init and
                    \* never awaited, "main" awaited by generateNotes
    reqLog,         \* the requests each run has sent to the tracker, in order
    respLog,        \* every answer received from the tracker so far
    error,          \* the error generateNotes rejected with
    unhandled,      \* the error of the rejected promise nobody awaits
    issues,         \* generateNotes: const issues
    prs,            \* generateNotes: const prs
    issueTypeCatSections,
    issueCatSections,
    prCatSections,
    otherCatIssues,
    otherIssueCatSection,
    categorySections,
    notes           \* the string generateNotes resolved with

generatorVars == <<settings, env, tracker, pc, clients, val, reqLog, respLog, error,
          unhandled, issues, prs, issueTypeCatSections, issueCatSections,
          prCatSections, otherCatIssues, otherIssueCatSection,
          categorySections, notes>>

VARIABLES
    urlCall,        \* the arguments of the buildPullRequestUrl call
    urlOutcome      \* what the call returned or threw

urlVars == <<urlCall, urlOutcome>>

VARIABLES
    job,            \* the Job argument of runJob; the print functions write to it
    jobPc,          \* where the runJob call is
    taskIndex,      \* runJob: let i, 1-based
    inFlight,       \* the tasks that were started and have not completed
    jobTrace,       \* what the call did so far, in order: console output,
                    \* Deno.env.set calls, starts and completions of tasks
    denoEnv         \* the process environment runJob reads and writes

jobVars == <<job, jobPc, taskIndex, inFlight, jobTrace, denoEnv>>

VARIABLES
    instClients,    \* labelClient / milestoneClient / repoClient of an instance
                    \* that serves several generateNotes calls
    calls,          \* the generateNotes calls on that instance
    sent            \* the requests the calls have sent, with the repository each
                    \* went to

overlapVars == <<instClients, calls, sent>>

vars == <<generatorVars, urlVars, jobVars, overlapVars>>

Runs == {"bg", "main"}

\* ------------------------------------------------------------------------
\* Settings Validator
\* ------------------------------------------------------------------------
RequiredMsg(field) ==
    <<"The '", field, "' setting is required and cannot be empty.">>

EnvMissingMsg(name) ==
    <<"The environment variable '">> \o name \o <<"' was not found or is empty.">>

RepoMissingMsg(s) ==
    <<"The repository '">> \o OrElse(s.ownerName, <<>>) \o <<"/">>
        \o OrElse(s.repoName, <<>>) \o <<"' does not exist.">>

LabelsMissingMsg(labelSettingType, invalidLabels) ==
    <<"The following '", labelSettingType, "' label(s) do not exist:\n   ">>
        \o Join(invalidLabels, <<",", " ">>)

\* RequiredFieldError without the check of headerText (lines 529-532)
RequiredFieldErrorNoHeader(s) ==
    IF isNothing(s.ownerName) THEN Some(RequiredMsg("ownerName"))
    ELSE IF isNothing(s.repoName) THEN Some(RequiredMsg("repoName"))
    ELSE Undefined

\* RequiredFieldError that looks at repoName before ownerName
RequiredFieldErrorRepoFirst(s) ==
    IF isNothing(s.repoName) THEN Some(RequiredMsg("repoName"))
    ELSE IF isNothing(s.ownerName) THEN Some(RequiredMsg("ownerName"))
    ELSE IF isNothing(s.headerText) THEN Some(RequiredMsg("headerText"))
    ELSE Undefined

\* the throw of lines 519-532 that is taken, if any
RequiredFieldError(s) ==
    IF isNothing(s.ownerName) THEN Some(RequiredMsg("ownerName"))
    ELSE IF isNothing(s.repoName) THEN Some(RequiredMsg("repoName"))
    ELSE IF isNothing(s.headerText) THEN Some(RequiredMsg("headerText"))
    ELSE Undefined

\* the three label settings in the order validateSettings visits them
GroupNames ==
    <<"issueCategoryLabelMappings", "prCategoryLabelMappings", "ignoreLabels">>

GroupDefined(s, g) ==
    IF g = 1 THEN s.issueCategoryLabelMappings # Undefined
    ELSE IF g = 2 THEN s.prCategoryLabelMappings # Undefined
    ELSE s.ignoreLabels # Undefined

\* labelsToCheck of the group
GroupLabels(s, g) ==
    IF g = 1 THEN Map(ObjKeys(s.issueCategoryLabelMappings[1]), Trim)
    ELSE IF g = 2 THEN Map(ObjKeys(s.prCategoryLabelMappings[1]), Trim)
    ELSE s.ignoreLabels[1]

RECURSIVE NextGroupSkipsIgnore(_, _)
\* NextGroup without the validation of ignoreLabels (lines 555-558 left out)
NextGroupSkipsIgnore(s, g) ==
    IF g > 2 THEN 4
    ELSE IF GroupDefined(s, g) /\ GroupLabels(s, g) # <<>> THEN g
    ELSE NextGroupSkipsIgnore(s, g + 1)

RECURSIVE NextGroup(_, _)
\* the first group from g on whose validateLabels call sends a request;
\* for a group without labels Promise.all([]) resolves and nothing is thrown
NextGroup(s, g) ==
    IF g > 3 THEN 4
    ELSE IF GroupDefined(s, g) /\ GroupLabels(s, g) # <<>> THEN g
    ELSE NextGroup(s, g + 1)

ValIdle == [st |-> "idle", group |-> 0, labels |-> <<>>, results |-> <<>>]

ValAwaitRepo == [st |-> "awaitRepo", group |-> 0, labels |-> <<>>, results |-> <<>>]

ValRejected == [st |-> "rejected", group |-> 0, labels |-> <<>>, results |-> <<>>]

ValResolved == [st |-> "resolved", group |-> 4, labels |-> <<>>, results |-> <<>>]

\* the run after validateSettings has reached group g (lines 541-558)
ValAtGroup(s, g) ==
    LET n == NextGroup(s, g)
    IN IF n = 4 THEN ValResolved
       ELSE [st |-> "awaitLabels", group |-> n, labels |-> GroupLabels(s, n),
             results |-> [i \in 1..Len(GroupLabels(s, n)) |-> "pending"]]

\* LabelRequests that sends the check of the first label only
LabelRequestsFirstOnly(v) ==
    IF v.st = "awaitLabels"
    THEN <<[kind |-> "labelExists", arg |-> v.labels[1]]>>
    ELSE <<>>

\* the requests validateLabels sends for the run v (lines 570-572)
LabelRequests(v) ==
    IF v.st = "awaitLabels"
    THEN [i \in 1..Len(v.labels) |->
             [kind |-> "labelExists", arg |-> v.labels[i]]]
    ELSE <<>>

\* InvalidLabels that stops at the first label that does not exist
InvalidLabelsFirstOnly(v) ==
    LET first == CHOOSE i \in 1..Len(v.labels) :
                    /\ v.results[i] = "false"
                    /\ \A j \in 1..(i - 1) : v.results[j] # "false"
    IN <<v.labels[first]>>

\* invalidLabels (lines 576-580)
InvalidLabels(v) ==
    LET idx == SelectSeq([i \in 1..Len(v.labels) |-> i],
                         LAMBDA i : v.results[i] = "false")
    IN [j \in 1..Len(idx) |-> v.labels[idx[j]]]

\* the milestone request of getIssues / getPrs
MilestoneRequest(kind) ==
    [kind |-> kind, arg |-> buildMilestoneName(settings)]

Terminal == {"done", "failed", "exited"}

\* ------------------------------------------------------------------------
\* generateNotes up to its first suspension: init (with the validateSettings
\* call it does not await) and the start of the awaited validateSettings
\* ------------------------------------------------------------------------
GenerateNotes ==
    /\ UNCHANGED <<urlVars, jobVars, overlapVars>>
    /\ pc = "start"
    /\ UNCHANGED <<settings, env, tracker, respLog, issues, prs,
                   issueTypeCatSections, issueCatSections, prCatSections,
                   otherCatIssues, otherIssueCatSection, categorySections, notes>>
    /\ IF isNothing(settings.githubTokenEnvVarName)
       THEN /\ pc' = "failed"
            /\ error' = Some(RequiredMsg("githubTokenEnvVarName"))
            /\ UNCHANGED <<clients, val, reqLog, unhandled>>
       ELSE IF ~ObjHas(env, settings.githubTokenEnvVarName[1])
       THEN /\ pc' = "failed"
            /\ error' = Some(EnvMissingMsg(settings.githubTokenEnvVarName[1]))
            /\ UNCHANGED <<clients, val, reqLog, unhandled>>
       ELSE /\ clients' = Some([ownerName |-> settings.ownerName,
                                repoName |-> settings.repoName,
                                token |-> ObjGet(env, settings.githubTokenEnvVarName[1])])
            /\ IF RequiredFieldError(settings) # Undefined
               THEN /\ val' = [r \in Runs |-> ValRejected]
                    /\ unhandled' = RequiredFieldError(settings)
                    /\ error' = RequiredFieldError(settings)
                    /\ pc' = "failed"
                    /\ UNCHANGED reqLog
               ELSE /\ val' = [r \in Runs |-> ValAwaitRepo]
                    /\ reqLog' = [r \in Runs |->
                                     <<[kind |-> "repoExists", arg |-> <<>>]>>]
                    /\ pc' = "validating"
                    /\ UNCHANGED <<error, unhandled>>

\* The effects of a validateSettings run r moving to the state v: a rejection
\* of "main" rejects generateNotes, a rejection of "bg" is unhandled, and a
\* resolution of "main" lets generateNotes go on to getIssues (lines 429-434)
ValEffects(r, v, err) ==
    /\ val' = [val EXCEPT ![r] = v]
    /\ IF v.st = "rejected"
       THEN /\ reqLog' = reqLog
            /\ IF r = "main"
               THEN pc' = "failed" /\ error' = err /\ UNCHANGED unhandled
               ELSE unhandled' = err /\ UNCHANGED <<pc, error>>
       ELSE IF v.st = "resolved"
       THEN IF r = "main"
            THEN /\ pc' = "awaitIssues"
                 /\ reqLog' = [reqLog EXCEPT
                                  ![r] = Append(@, MilestoneRequest("getIssues"))]
                 /\ UNCHANGED <<error, unhandled>>
            ELSE UNCHANGED <<pc, reqLog, error, unhandled>>
       ELSE /\ reqLog' = [reqLog EXCEPT ![r] = @ \o LabelRequests(v)]
            /\ UNCHANGED <<pc, error, unhandled>>

\* the answer of repoClient.exists() arrives for the run r (lines 534-558)
RepoExistsResponse(r) ==
    /\ UNCHANGED <<urlVars, jobVars, overlapVars>>
    /\ pc \notin {"start", "exited"}
    /\ val[r].st = "awaitRepo"
    /\ respLog' = respLog \cup
          {[run |-> r, kind |-> "repoExists", arg |-> <<>>, result |-> tracker.exists]}
    /\ IF ~tracker.exists
       THEN ValEffects(r, ValRejected, Some(RepoMissingMsg(settings)))
       ELSE ValEffects(r, ValAtGroup(settings, 1), Undefined)
    /\ UNCHANGED <<settings, env, tracker, clients, issues, prs,
                   issueTypeCatSections, issueCatSections, prCatSections,
                   otherCatIssues, otherIssueCatSection, categorySections, notes>>

\* the answer of the i-th labelClient.exists() of the current group arrives
\* for the run r; with the last answer Promise.all resolves (lines 574-587)
LabelExistsResponse(r, i) ==
    /\ UNCHANGED <<urlVars, jobVars, overlapVars>>
    /\ pc \notin {"start", "exited"}
    /\ val[r].st = "awaitLabels"
    /\ i \in 1..Len(val[r].results)
    /\ val[r].results[i] = "pending"
    /\ LET exists == val[r].labels[i] \in tracker.labels
           v == [val[r] EXCEPT !.results[i] = IF exists THEN "true" ELSE "false"]
           results == v.results
       IN /\ respLog' = respLog \cup
                {[run |-> r, kind |-> "labelExists", arg |-> val[r].labels[i],
                  result |-> exists]}
          /\ IF \E j \in 1..Len(results) : results[j] = "pending"
             THEN /\ val' = [val EXCEPT ![r] = v]
                  /\ UNCHANGED <<pc, reqLog, error, unhandled>>
             ELSE IF \E j \in 1..Len(results) : results[j] = "false"
             THEN ValEffects(r, ValRejected,
                             Some(LabelsMissingMsg(GroupNames[v.group], InvalidLabels(v))))
             ELSE ValEffects(r, ValAtGroup(settings, v.group + 1), Undefined)
    /\ UNCHANGED <<settings, env, tracker, clients, issues, prs,
                   issueTypeCatSections, issueCatSections, prCatSections,
                   otherCatIssues, otherIssueCatSection, categorySections, notes>>

\* ------------------------------------------------------------------------
\* Item Fetcher
\* ------------------------------------------------------------------------
\* what milestoneClient.getIssues / getPullRequests answers for a name
MilestoneItems(name, items) == IF name = tracker.milestone THEN items ELSE <<>>

\* NotIgnored that looks at the first label of the item only
NotIgnoredFirstLabelOnly(item, ignoreLabels) ==
    item.labels = <<>> \/ ~Includes(ignoreLabels, item.labels[1])

NotIgnored(item, ignoreLabels) ==
    \A i \in 1..Len(item.labels) : ~Includes(ignoreLabels, item.labels[i])

\* sanitizeIssueTitle / sanitizePrTitle
sanitizeItemTitle(s, item) == [item EXCEPT !.title = sanitizeTitle(s, item.title)]

\* the value getIssues / getPrs returns for the fetched items (lines 697-704,
\* 717-724)
FilterAndSanitize(s, fetched) ==
    LET ignoreLabels == OrElse(s.ignoreLabels, <<>>)
    IN IF Len(ignoreLabels) = 0 THEN fetched
       ELSE Map(SelectSeq(fetched, LAMBDA item : NotIgnored(item, ignoreLabels)),
                LAMBDA item : sanitizeItemTitle(s, item))

\* getIssues / getPrs throws: a title of a kept item makes sanitizeTitle throw
FetchThrows(s, fetched) ==
    LET ignoreLabels == OrElse(s.ignoreLabels, <<>>)
    IN /\ Len(ignoreLabels) # 0
       /\ \E i \in 1..Len(fetched) :
             /\ NotIgnored(fetched[i], ignoreLabels)
             /\ SanitizeThrows(s, fetched[i].title)

ResolveErrorMsg == <<"Cannot resolve version">>

\* the answer of milestoneClient.getIssues arrives; getPrs sends its request
GetIssuesResponse ==
    /\ UNCHANGED <<urlVars, jobVars, overlapVars>>
    /\ pc = "awaitIssues"
    /\ LET fetched == MilestoneItems(buildMilestoneName(settings), tracker.issues)
       IN /\ respLog' = respLog \cup
                {[run |-> "main", kind |-> "getIssues",
                  arg |-> buildMilestoneName(settings), result |-> fetched]}
          /\ IF FetchThrows(settings, fetched)
             THEN /\ pc' = "failed"
                  /\ error' = Some(ResolveErrorMsg)
                  /\ UNCHANGED <<issues, reqLog>>
             ELSE /\ issues' = FilterAndSanitize(settings, fetched)
                  /\ pc' = "awaitPrs"
                  /\ reqLog' = [reqLog EXCEPT
                                   !["main"] = Append(@, MilestoneRequest("getPullRequests"))]
                  /\ UNCHANGED error
    /\ UNCHANGED <<settings, env, tracker, clients, val, unhandled, prs,
                   issueTypeCatSections, issueCatSections, prCatSections,
                   otherCatIssues, otherIssueCatSection, categorySections, notes>>

\* the answer of milestoneClient.getPullRequests arrives; the rest of
\* generateNotes runs to its return (lines 437-487)
GetPrsResponse ==
    /\ UNCHANGED <<urlVars, jobVars, overlapVars>>
    /\ pc = "awaitPrs"
    /\ LET fetched == MilestoneItems(buildMilestoneName(settings), tracker.prs)
           newPrs == FilterAndSanitize(settings, fetched)
           typeSecs == buildCategoryIssueTypeSections(
                           OrElse(settings.issueCategoryIssueTypeMappings, <<>>), issues)
           issueSecs == buildCategoryLabelSections(
                           OrElse(settings.issueCategoryLabelMappings, <<>>), issues)
           prSecs == buildCategoryLabelSections(
                           OrElse(settings.prCategoryLabelMappings, <<>>), newPrs)
           others == OtherCatIssues(settings, issues)
           otherSecs == buildCategoryLabelSections(OtherCat(settings), others)
           merged == MergeSections(typeSecs, issueSecs, prSecs, otherSecs)
       IN /\ respLog' = respLog \cup
                {[run |-> "main", kind |-> "getPullRequests",
                  arg |-> buildMilestoneName(settings), result |-> fetched]}
          /\ IF FetchThrows(settings, fetched)
             THEN /\ pc' = "failed"
                  /\ error' = Some(ResolveErrorMsg)
                  /\ UNCHANGED <<prs, issueTypeCatSections, issueCatSections,
                                 prCatSections, otherCatIssues,
                                 otherIssueCatSection, categorySections, notes>>
             ELSE /\ prs' = newPrs
                  /\ issueTypeCatSections' = typeSecs
                  /\ issueCatSections' = issueSecs
                  /\ prCatSections' = prSecs
                  /\ otherCatIssues' = others
                  /\ otherIssueCatSection' = otherSecs
                  /\ categorySections' = merged
                  /\ notes' = Join(ReleaseNotesList(settings, merged), <<"\n">>)
                  /\ pc' = "done"
                  /\ UNCHANGED error
    /\ UNCHANGED <<settings, env, tracker, clients, val, reqLog, unhandled, issues>>

\* The promise of the validateSettings call of init is rejected and nobody
\* handles it: the runtime ends the process
UnhandledRejectionExit ==
    /\ UNCHANGED <<urlVars, jobVars, overlapVars>>
    /\ unhandled # Undefined
    /\ pc \notin Terminal
    /\ pc' = "exited"
    /\ UNCHANGED <<settings, env, tracker, clients, val, reqLog, respLog, error,
                   unhandled, issues, prs, issueTypeCatSections,
                   issueCatSections, prCatSections, otherCatIssues,
                   otherIssueCatSection, categorySections, notes>>

\* ------------------------------------------------------------------------
\* Initial states: the settings a caller passes and the repository they name
\* ------------------------------------------------------------------------
MaxIssues == 2

MaxPrs == 1

MaxLabels == 2

\* all sequences without repetition of at most n elements of the set S
RECURSIVE DistinctSeqs(_, _)
DistinctSeqs(S, n) ==
    IF n = 0 THEN {<<>>}
    ELSE LET shorter == DistinctSeqs(S, n - 1)
         IN shorter \cup
               UNION {{Append(q, x) : x \in S \ Range(q)} : q \in shorter}

\* all sequences of at most n elements of the set S
RECURSIVE AllSeqs(_, _)
AllSeqs(S, n) ==
    IF n = 0 THEN {<<>>}
    ELSE LET shorter == AllSeqs(S, n - 1)
         IN shorter \cup {Append(q, x) : q \in shorter, x \in S}

sA == <<"a">>

sB == <<"b">>

sSpA == <<" ", "a">>

sADashB == <<"a", "-", "b">>

sASpB == <<"a", " ", "b">>

s7 == <<"7">>

sO == <<"o">>

sI == <<"i">>

E(k, v) == [k |-> k, v |-> v]

BaseSettings ==
    [ownerName |-> Some(<<"k", "d">>),
     repoName |-> Some(<<"s", "p">>),
     githubTokenEnvVarName |-> Some(<<"T">>),
     milestoneName |-> <<"v", PhVersion>>,
     headerText |-> Some(<<PhRepoName, " ", PhVersion>>),
     wordReplacements |-> Some(<<>>),
     version |-> Some(<<"1", ".", "0">>),
     releaseType |-> Undefined,
     extraInfo |-> Undefined,
     emojisToRemoveFromTitle |-> Undefined,
     issueCategoryIssueTypeMappings |-> Undefined,
     issueCategoryLabelMappings |-> Undefined,
     prCategoryLabelMappings |-> Undefined,
     ignoreLabels |-> Undefined,
     firstWordReplacements |-> Undefined,
     styledWordsList |-> Undefined,
     boldedVersions |-> FALSE,
     italicVersions |-> FALSE,
     otherCategoryName |-> Undefined]

BaseEnv == ObjLiteral(<<E(<<"T">>, <<"t", "o", "k">>)>>)

AllLabels == {sA, sB, sASpB, s7, sO, sI}

BaseTracker ==
    [exists |-> TRUE, labels |-> AllLabels,
     milestone |-> <<"v", "1", ".", "0">>, issues |-> <<>>, prs |-> <<>>]

Issue(number, title, labels, type) ==
    [number |-> number, title |-> title,
     html_url |-> Some(<<"u", ToString(number)>>), labels |-> labels, type |-> type]

Pr(number, title, labels) ==
    [number |-> number, title |-> title,
     html_url |-> Some(<<"u", ToString(number)>>), labels |-> labels]

tFixX == <<"f", "i", "x", " ", "x">>

tAddV == <<"@", "a", "d", "d", " ", "v", "1", ".", "2">>

tZ == <<"z">>

\* a mapping whose keys are the given labels, each with a header text
MappingOf(keys) ==
    ObjLiteral([i \in 1..Len(keys) |-> E(keys[i], Some(<<"H", ToString(i)>>))])

\* --- required settings, credential and repository existence -------------
InitRequired ==
    /\ \E o \in {Undefined, Some(<<>>), BaseSettings.ownerName},
          rn \in {Some(<<>>), BaseSettings.repoName},
          h \in {Some(<<>>), BaseSettings.headerText},
          tn \in {Undefined, Some(<<>>), Some(<<"T">>), Some(<<"U">>)} :
          settings = [BaseSettings EXCEPT
                         !.ownerName = o, !.repoName = rn, !.headerText = h,
                         !.githubTokenEnvVarName = tn,
                         !.issueCategoryLabelMappings = Some(MappingOf(<<sA>>))]
    /\ env \in {BaseEnv, ObjLiteral(<<E(<<"T">>, <<>>)>>)}
    /\ \E ex \in BOOLEAN : tracker = [BaseTracker EXCEPT !.exists = ex]

\* --- label validation ----------------------------------------------------
InitLabels ==
    /\ \E lk \in DistinctSeqs({sSpA, sB}, MaxLabels) \cup {Undefined},
          pk \in DistinctSeqs({sA}, MaxLabels) \cup {Undefined},
          ig \in {Some(q) : q \in AllSeqs({sA, sB}, MaxLabels)} \cup {Undefined} :
          settings = [BaseSettings EXCEPT
                         !.issueCategoryLabelMappings =
                             IF lk = Undefined THEN Undefined ELSE Some(MappingOf(lk)),
                         !.prCategoryLabelMappings =
                             IF pk = Undefined THEN Undefined ELSE Some(MappingOf(pk)),
                         !.ignoreLabels = ig]
    /\ env = BaseEnv
    /\ \E ls \in SUBSET {sA, sB} : tracker = [BaseTracker EXCEPT !.labels = ls]

\* --- categorizer ---------------------------------------------------------
TypeMappingOptions ==
    {Some(ObjLiteral(<<E(sADashB, Some(<<"X">>)), E(sASpB, Some(<<"Y">>))>>)),
     Some(ObjLiteral(<<E(sB, Some(sA)), E(s7, Some(sB))>>))}

LabelMappingOptions ==
    {Some(ObjLiteral(<<E(sA, Some(sA))>>)),
     Some(ObjLiteral(<<E(sA, Some(<<"X">>))>>)),
     Some(ObjLiteral(<<E(sB, Some(sB)), E(sASpB, Some(<<"Z">>))>>))}

PrMappingOptions ==
    {Some(ObjLiteral(<<E(sB, Some(<<"P">>))>>)),
     Some(ObjLiteral(<<E(s7, Some(<<"Q">>))>>))}

OtherNameOptions == {Undefined, Some(sO), Some(sA)}

IssuePool ==
    {Issue(10, tFixX, <<sA>>, Undefined),
     Issue(11, tZ, <<sO>>, Some(sADashB)),
     Issue(12, tZ, <<sA, sB>>, Some(sASpB)),
     Issue(13, tZ, <<sASpB>>, Some(s7))}

PrPool ==
    {Pr(20, tZ, <<sA, sB>>),
     Pr(21, tFixX, <<s7, sB>>)}

InitCategorizer ==
    /\ \E tm \in TypeMappingOptions, lm \in LabelMappingOptions,
          pm \in PrMappingOptions, on \in OtherNameOptions :
          settings = [BaseSettings EXCEPT
                         !.issueCategoryIssueTypeMappings = tm,
                         !.issueCategoryLabelMappings = lm,
                         !.prCategoryLabelMappings = pm,
                         !.otherCategoryName = on]
    /\ env = BaseEnv
    /\ \E is \in DistinctSeqs(IssuePool, MaxIssues),
          ps \in DistinctSeqs(PrPool, MaxPrs) :
          tracker = [BaseTracker EXCEPT !.issues = is, !.prs = ps]

\* --- ignore labels and title sanitizing --------------------------------
SanitizerOptions ==
    {[emojisToRemoveFromTitle |-> Undefined, wordReplacements |-> Some(<<>>),
      firstWordReplacements |-> Undefined, styledWordsList |-> Undefined,
      boldedVersions |-> FALSE, italicVersions |-> FALSE],
     [emojisToRemoveFromTitle |-> Some(<< <<"@">> >>),
      wordReplacements |-> Some(ObjLiteral(<<E(<<"x">>, <<"y">>)>>)),
      firstWordReplacements |->
          Some(ObjLiteral(<<E(<<"F", "i", "x">>, <<"F", "i", "x", "e", "d">>),
                            E(<<"A", "d", "d">>, <<"A", "d", "d", "e", "d">>)>>)),
      styledWordsList |-> Some(ObjLiteral(<<E(<<"y">>, <<"b", "o", "l", "d">>)>>)),
      boldedVersions |-> TRUE, italicVersions |-> FALSE]}

IgnoreOptions == {Undefined, Some(<<>>), Some(<<sI>>), Some(<<sI, sB>>)}

TitledIssuePool ==
    {Issue(10, tFixX, <<sA>>, Undefined),
     Issue(11, tAddV, <<sA, sI>>, Undefined),
     Issue(12, tAddV, <<sO>>, Undefined),
     Issue(13, tZ, <<sB>>, Undefined)}

TitledPrPool ==
    {Pr(20, tFixX, <<sA>>),
     Pr(21, tAddV, <<sI>>)}

InitIgnore ==
    /\ \E so \in SanitizerOptions, ig \in IgnoreOptions :
          settings = [BaseSettings EXCEPT
                         !.emojisToRemoveFromTitle = so.emojisToRemoveFromTitle,
                         !.wordReplacements = so.wordReplacements,
                         !.firstWordReplacements = so.firstWordReplacements,
                         !.styledWordsList = so.styledWordsList,
                         !.boldedVersions = so.boldedVersions,
                         !.italicVersions = so.italicVersions,
                         !.issueCategoryLabelMappings = Some(MappingOf(<<sA>>)),
                         !.prCategoryLabelMappings = Some(MappingOf(<<sA>>)),
                         !.otherCategoryName = Some(sO),
                         !.ignoreLabels = ig]
    /\ env = BaseEnv
    /\ \E is \in DistinctSeqs(TitledIssuePool, MaxIssues),
          ps \in DistinctSeqs(TitledPrPool, MaxPrs) :
          tracker = [BaseTracker EXCEPT !.issues = is, !.prs = ps]

\* --- title sanitizing ---------------------------------------------------
\* the numeric groups of the version regexes: major, minor, patch
MaxComponents == 3

\* parts.join(".")
JoinDots(parts) == Join(parts, <<".">>)

\* numeric components (0|[1-9]\d*) of a version
NumericComponents == {<<"0">>, <<"1", "2">>}

\* one to three numeric components
ComponentSeqs == AllSeqs(NumericComponents, MaxComponents) \ {<<>>}

VersionPrefixes == {<<>>, <<"v">>}

\* the text before and after the version of a title
VersionPres == {<<>>, <<"a", " ">>, <<"x">>}

VersionPosts == {<<>>, <<" ", "b">>, <<".">>, <<"-">>}

\* titles with one version of one to three numeric components
VersionTitles ==
    {pre \o pv \o JoinDots(comps) \o post :
        pre \in VersionPres, pv \in VersionPrefixes,
        comps \in ComponentSeqs, post \in VersionPosts}

tPreRelease == <<"v", "1", ".", "2", ".", "3", "-", "a", ".", "b">>

tFourGroups == <<"1", ".", "2", ".", "3", ".", "4">>

tBuild == <<"v", "1", ".", "2", ".", "3", "+", "b", ".", "c">>

\* titles whose version text has more than three groups between dots
LongVersionTitles == {tPreRelease, tFourGroups, tBuild}

tTwoVersions == <<"v", "1", ".", "2", " ", "a", "n", "d", " ", "v", "1">>

tSameVersionTwice == <<"v", "1", " ", "v", "1">>

tVersionPair == <<"1", " ", "2", ".", "0">>

\* titles with more than one version
MultiVersionTitles == {tTwoVersions, tSameVersionTwice, tVersionPair}

tMinorBeta == <<"1", ".", "2", "-", "b", "e", "t", "a">>

tMajorRc == <<"1", "-", "r", "c", ".", "1">>

tMajorBuild == <<"v", "1", "+", "b">>

\* titles whose version has fewer than three numeric components and a
\* pre-release or build suffix
SuffixVersionTitles == {tMinorBeta, tMajorRc, tMajorBuild}

tBumpD == <<"b", "u", "m", "p", " ", "d">>

tCapBumpD == <<"B", "u", "m", "p", " ", "d">>

tFixC == <<"F", "i", "x", " ", "c">>

tAddFix == <<"a", "d", "d", " ", "F", "i", "x">>

tZQ == <<"z", " ", " ", "Q">>

tFiXQ == <<"f", "i", "X", " ", "q">>

tSpFix == <<" ", "F", "i", "x">>

WordTitles ==
    {tFixX, tAddV, tZ, tBumpD, tCapBumpD, tFixC, tAddFix, tZQ, tFiXQ, tSpFix,
     <<"v", "1">>, <<"a", " ", "v", "1", ".", "2", " ", "b">>}

NoSanitizer == CHOOSE so \in SanitizerOptions : so.firstWordReplacements = Undefined

FullSanitizer == CHOOSE so \in SanitizerOptions : so.firstWordReplacements # Undefined

\* settings that style versions and configure nothing else
VersionStyleOptions ==
    {[NoSanitizer EXCEPT !.boldedVersions = b, !.italicVersions = i] :
        b \in BOOLEAN, i \in BOOLEAN}

\* settings that configure firstWordReplacements and nothing else
FirstWordOptions ==
    {[NoSanitizer EXCEPT !.firstWordReplacements =
          Some(ObjLiteral(<<E(<<"F", "i", "x">>, <<"F", "i", "x", "e", "d">>), E(<<"A", "d", "d">>, <<"A", "d", "d", "e", "d">>)>>))],
     [NoSanitizer EXCEPT !.firstWordReplacements =
          Some(ObjLiteral(<<E(<<"b", "u", "m", "p">>, <<"U", "p", "d", "a", "t", "e", "d">>), E(<<"F", "i", "x">>, <<"F", "i", "x", "e", "d">>)>>))]}

WordOptions == FirstWordOptions \cup {FullSanitizer}

\* the settings of a call that sanitizes with the options so
SanitizingSettings(so) ==
    [BaseSettings EXCEPT
        !.emojisToRemoveFromTitle = so.emojisToRemoveFromTitle,
        !.wordReplacements = so.wordReplacements,
        !.firstWordReplacements = so.firstWordReplacements,
        !.styledWordsList = so.styledWordsList,
        !.boldedVersions = so.boldedVersions,
        !.italicVersions = so.italicVersions,
        !.ignoreLabels = Some(<<sI>>)]

InitSanitizer ==
    /\ \E so \in VersionStyleOptions \cup WordOptions :
          /\ settings = SanitizingSettings(so)
          /\ \E t \in IF so \in VersionStyleOptions
                      THEN VersionTitles \cup LongVersionTitles
                           \cup MultiVersionTitles \cup SuffixVersionTitles
                      ELSE WordTitles :
                tracker = [BaseTracker EXCEPT
                              !.issues = <<Issue(30, t, <<sA>>, Undefined)>>,
                              !.prs = <<Pr(31, t, <<sB>>)>>]
    /\ env = BaseEnv

\* milestoneName templates
MilestoneTemplates ==
    {<<"v", PhVersion>>,
     <<PhVersion, "-", PhEnvironment, "-", PhRepoName>>,
     <<PhVersion, " ", PhVersion, PhRepoName, PhRepoName>>,
     <<"m", "1">>}

\* values of the version setting
MilestoneVersions ==
    {Undefined, Some(<<"1", ".", "0">>), Some(<<"$", "$">>), Some(<<"$", "&">>),
     Some(<<PhRepoName>>)}

\* values of the releaseType setting
MilestoneReleaseTypes == {Undefined, Some(<<"r", "c">>), Some(<<PhRepoName>>)}

InitMilestone ==
    /\ \E t \in MilestoneTemplates, v \in MilestoneVersions,
          rt \in MilestoneReleaseTypes :
          settings = [BaseSettings EXCEPT !.milestoneName = t, !.version = v,
                                          !.releaseType = rt]
    /\ tracker = [BaseTracker EXCEPT
                     !.issues = <<Issue(40, tZ, <<sA>>, Undefined)>>,
                     !.prs = <<Pr(41, tZ, <<sB>>)>>]
    /\ env = BaseEnv

\* the generator before generateNotes is called
GeneratorStart ==
    /\ pc = "start"
    /\ clients = Undefined
    /\ val = [r \in Runs |-> ValIdle]
    /\ reqLog = [r \in Runs |-> <<>>]
    /\ respLog = {}
    /\ error = Undefined
    /\ unhandled = Undefined
    /\ issues = <<>>
    /\ prs = <<>>
    /\ issueTypeCatSections = <<>>
    /\ issueCatSections = <<>>
    /\ prCatSections = <<>>
    /\ otherCatIssues = <<>>
    /\ otherIssueCatSection = <<>>
    /\ categorySections = <<>>
    /\ notes = Undefined

\* generateNotes is not called at all
GeneratorIdle ==
    /\ settings = BaseSettings
    /\ env = BaseEnv
    /\ tracker = BaseTracker
    /\ GeneratorStart

\* buildPullRequestUrl is not called
UrlIdle == urlCall = Undefined /\ urlOutcome = Undefined

\* runJob is not called
JobIdle ==
    /\ job = Undefined
    /\ jobPc = "idle"
    /\ taskIndex = 0
    /\ inFlight = {}
    /\ jobTrace = <<>>
    /\ denoEnv = <<>>

\* no instance serves several calls
OverlapIdle == instClients = Undefined /\ calls = <<>> /\ sent = {}

Init ==
    /\ \/ InitRequired
       \/ InitLabels
       \/ InitCategorizer
       \/ InitIgnore
       \/ InitSanitizer
       \/ InitMilestone
    /\ GeneratorStart
    /\ UrlIdle
    /\ JobIdle
    /\ OverlapIdle

\* the positions of the label checks that are in flight
LabelIndexes == UNION {1..Len(val[r].labels) : r \in Runs}

Next ==
    \/ GenerateNotes
    \/ \E r \in Runs : RepoExistsResponse(r)
    \/ \E r \in Runs, i \in LabelIndexes : LabelExistsResponse(r, i)
    \/ GetIssuesResponse
    \/ GetPrsResponse
    \/ UnhandledRejectionExit

Spec == Init /\ [][Next]_vars

\* ------------------------------------------------------------------------
\* buildPullRequestUrl
\* ------------------------------------------------------------------------
\* a JavaScript number: a finite integer n, NaN, or an infinity of sign n
Finite(n) == [kind |-> "finite", n |-> n]

NaN == [kind |-> "NaN", n |-> 0]

PosInfinity == [kind |-> "Infinity", n |-> 1]

NegInfinity == [kind |-> "Infinity", n |-> -1]

isNaN(value) == value.kind = "NaN"

isFinite(value) == value.kind = "finite"

\* value < 1; a comparison with NaN is false
LessThanOne(value) ==
    CASE value.kind = "finite" -> value.n < 1
      [] value.kind = "Infinity" -> value.n < 0
      [] OTHER -> FALSE

\* isLessThanOne for a number (the parameter of buildPullRequestUrl is never
\* undefined or null)
isLessThanOne(value) ==
    IF isNaN(value) \/ ~isFinite(value) THEN FALSE
    ELSE IF LessThanOne(value) THEN FALSE
    ELSE TRUE

\* `${value}` for a number
NumberToString(value) ==
    CASE value.kind = "finite" -> ToString(value.n)
      [] value.kind = "NaN" -> "NaN"
      [] OTHER -> IF value.n > 0 THEN "Infinity" ELSE "-Infinity"

OwnerRequiredMsg == <<"The owner name is required.">>

RepoRequiredMsg == <<"The repo name is required.">>

PrNumberMsg == <<"The pull request number must be greater than zero.">>

Threw(msg) == Some([threw |-> TRUE, value |-> msg])

Returned(value) == Some([threw |-> FALSE, value |-> value])

\* buildPullRequestUrl (github.ts)
buildPullRequestUrl(ownerName, repoName, prNumber) ==
    IF isNothing(ownerName) THEN Threw(OwnerRequiredMsg)
    ELSE IF isNothing(repoName) THEN Threw(RepoRequiredMsg)
    ELSE IF isLessThanOne(prNumber) THEN Threw(PrNumberMsg)
    ELSE Returned(<<"https://github.com/">> \o ownerName[1] \o <<"/">>
                  \o repoName[1] \o <<"/pull/">>
                  \o <<NumberToString(prNumber)>>)

\* the call returns or throws
BuildPullRequestUrl ==
    /\ urlCall # Undefined
    /\ urlOutcome = Undefined
    /\ urlOutcome' = buildPullRequestUrl(urlCall[1].ownerName,
                                         urlCall[1].repoName,
                                         urlCall[1].prNumber)
    /\ UNCHANGED <<urlCall, generatorVars, jobVars, overlapVars>>

\* the largest magnitude of the pull request numbers tried
MaxPrNumber == 2

PrNumbers ==
    {Finite(n) : n \in (0 - MaxPrNumber)..MaxPrNumber}
        \cup {NaN, PosInfinity, NegInfinity}

UrlNames == {Undefined, Some(<<>>), Some(<<"k", "d">>), Some(<<"s", "p">>)}

UrlInit ==
    /\ \E o \in UrlNames, r \in UrlNames, n \in PrNumbers :
          urlCall = Some([ownerName |-> o, repoName |-> r, prNumber |-> n])
    /\ urlOutcome = Undefined
    /\ GeneratorIdle
    /\ JobIdle
    /\ OverlapIdle

UrlNext == BuildPullRequestUrl

UrlSpec == UrlInit /\ [][UrlNext]_vars

\* ------------------------------------------------------------------------
\* runJob (job-runner.ts, the version that imports the task type guards)
\* ------------------------------------------------------------------------
\* an entry of jobTrace: console.log / console.error output, a Deno.env.set
\* call, the start or the completion of the work of a task
TraceEntry(ev, by, i, args) == [ev |-> ev, by |-> by, task |-> i, args |-> args]

\* const clr = isNothing(color) ? "" : `color:${color}`
MsgColor(color) == IF isNothing(color) THEN <<>> ELSE <<"color:">> \o color[1]

\* isNothing(clr) ? msg : `%c${msg}`
MsgText(msg, color) ==
    IF MsgColor(color) = <<>> THEN msg[1] ELSE <<"%c">> \o msg[1]

printPreExecuteJobMsg(j, trace) ==
    IF isNothing(j.preExecuteMsg) THEN [job |-> j, trace |-> trace]
    ELSE LET text == MsgText(j.preExecuteMsg, j.preExecuteMsgColor)
         IN [job |-> [j EXCEPT !.preExecuteMsg = Some(text)],
             trace |-> Append(trace, TraceEntry("log", "preJob", 0,
                                 <<text, MsgColor(j.preExecuteMsgColor)>>))]

printPostExecuteJobMsg(j, trace) ==
    IF isNothing(j.postExecuteMsg) THEN [job |-> j, trace |-> trace]
    ELSE LET text == MsgText(j.postExecuteMsg, j.postExecuteMsgColor)
         IN [job |-> [j EXCEPT !.postExecuteMsg = Some(text)],
             trace |-> Append(trace, TraceEntry("log", "postJob", 0,
                                 <<text, MsgColor(j.postExecuteMsgColor)>>))]

printPreExecuteTaskMsg(j, trace, i) ==
    LET task == j.tasks[i]
    IN IF isNothing(task.preExecuteMsg) THEN [job |-> j, trace |-> trace]
       ELSE LET text == MsgText(task.preExecuteMsg, task.preExecuteMsgColor)
            IN [job |-> [j EXCEPT !.tasks[i].preExecuteMsg = Some(text)],
                trace |-> Append(trace, TraceEntry("log", "preTask", i,
                                    <<text, MsgColor(task.preExecuteMsgColor)>>))]

printPostExecuteTaskMsg(j, trace, i) ==
    LET task == j.tasks[i]
    IN IF isNothing(task.postExecuteMsg) THEN [job |-> j, trace |-> trace]
       ELSE LET text == MsgText(task.postExecuteMsg, task.postExecuteMsgColor)
            IN [job |-> [j EXCEPT !.tasks[i].postExecuteMsg = Some(text)],
                trace |-> Append(trace, TraceEntry("log", "postTask", i,
                                    <<text, MsgColor(task.postExecuteMsgColor)>>))]

\* trimmedValue.startsWith("${") && trimmedValue.endsWith("}")
IsInterpolated(trimmedValue) ==
    /\ Len(trimmedValue) >= 2
    /\ trimmedValue[1] = "$"
    /\ trimmedValue[2] = "{"
    /\ trimmedValue[Len(trimmedValue)] = "}"

\* Deno.env.get(name) || ""
EnvGetOrEmpty(e, name) == IF ObjHas(e, name) THEN ObjGet(e, name) ELSE <<>>

\* the value Deno.env.set is called with for an entry of job.env
ValueToUse(e, value) ==
    LET trimmedValue == Trim(value)
    IN IF IsInterpolated(trimmedValue)
       THEN EnvGetOrEmpty(e, SubSeq(trimmedValue, 3, Len(trimmedValue) - 1))
       ELSE trimmedValue

RECURSIVE SetEnvEntries(_, _, _)
\* for (const [key, value] of Object.entries(job.env)) Deno.env.set(...)
SetEnvEntries(entries, e, trace) ==
    IF entries = <<>> THEN [env |-> e, trace |-> trace]
    ELSE LET valueToUse == ValueToUse(e, entries[1].v)
         IN SetEnvEntries(Tail(entries), ObjSet(e, entries[1].k, valueToUse),
                          Append(trace, TraceEntry("envSet", "env", 0,
                                            <<entries[1].k, valueToUse>>)))

processEnvVariables(j, e, trace) ==
    IF j.env = Undefined THEN [env |-> e, trace |-> trace]
    ELSE SetEnvEntries(j.env[1], e, trace)

\* isCommandTask(task) || isFunctionTask(task) || isScriptTask(task)
KnownTask(task) == task.kind \in {"command", "function", "script"}

\* runJob that does not await runCmd
AwaitedExceptCommand(task) == task.kind \in {"function", "script"}

\* runJob awaits the promise of the task's run function
Awaited(task) == task.kind \in {"command", "function", "script"}

\* new Deno.Command(...).spawn() throws: the app cannot be started
SpawnThrows(task) == task.kind = "command" /\ ~task.spawns

RECURSIVE RunTasksFrom(_, _, _, _)
\* the loop of runJob from the task i on, up to the next await that suspends
\* it, the throw that ends it, or its return
RunTasksFrom(j, trace, i, started) ==
    IF i > Len(j.tasks)
    THEN LET p == printPostExecuteJobMsg(j, trace)
         IN [job |-> p.job, trace |-> p.trace, pc |-> "done", i |-> i,
             started |-> started]
    ELSE LET p == printPreExecuteTaskMsg(j, trace, i)
             task == p.job.tasks[i]
         IN IF ~KnownTask(task)
            THEN LET q == printPostExecuteTaskMsg(p.job,
                              Append(p.trace, TraceEntry("error", "unknown", i,
                                                 <<"Unknown task type:">>)), i)
                 IN RunTasksFrom(q.job, q.trace, i + 1, started)
            ELSE IF SpawnThrows(task)
            THEN [job |-> p.job, trace |-> p.trace, pc |-> "failed", i |-> i,
                  started |-> started]
            ELSE LET t == Append(p.trace, TraceEntry("start", task.kind, i, <<>>))
                 IN IF Awaited(task)
                    THEN [job |-> p.job, trace |-> t, pc |-> "awaiting", i |-> i,
                          started |-> started \cup {i}]
                    ELSE LET q == printPostExecuteTaskMsg(p.job, t, i)
                         IN RunTasksFrom(q.job, q.trace, i + 1, started \cup {i})

\* what the run function of the task prints when the work fails
FailureEntry(task, i) ==
    CASE task.kind = "command" ->
            TraceEntry("log", "cmdError", i,
                       <<<<"%cAn error occurred running the ">> \o task.app \o <<" ">>,
                         <<"color: indianred">>>>)
      [] task.kind = "function" ->
            TraceEntry("error", "function", i, <<"Error running function:">>)
      [] OTHER ->
            TraceEntry("error", "script", i, <<"Error running script:">>)

\* runJob is called and runs to its first await
RunJob ==
    /\ jobPc = "start"
    /\ LET p == printPreExecuteJobMsg(job[1], jobTrace)
           e == processEnvVariables(p.job, denoEnv, p.trace)
           r == RunTasksFrom(p.job, e.trace, 1, {})
       IN /\ job' = Some(r.job)
          /\ denoEnv' = e.env
          /\ jobTrace' = r.trace
          /\ jobPc' = r.pc
          /\ taskIndex' = r.i
          /\ inFlight' = r.started
    /\ UNCHANGED <<generatorVars, urlVars, overlapVars>>

\* the work of the task i completes, successfully or not; when runJob awaits
\* it, the loop goes on to the next await
TaskCompletes(i, success) ==
    /\ i \in inFlight
    /\ LET task == job[1].tasks[i]
           ended == Append(jobTrace, TraceEntry("end", task.kind, i, <<>>))
           t == IF success THEN ended ELSE Append(ended, FailureEntry(task, i))
       IN IF jobPc = "awaiting" /\ taskIndex = i
          THEN LET q == printPostExecuteTaskMsg(job[1], t, i)
                   r == RunTasksFrom(q.job, q.trace, i + 1, inFlight \ {i})
               IN /\ job' = Some(r.job)
                  /\ jobTrace' = r.trace
                  /\ jobPc' = r.pc
                  /\ taskIndex' = r.i
                  /\ inFlight' = r.started
          ELSE /\ jobTrace' = t
               /\ inFlight' = inFlight \ {i}
               /\ UNCHANGED <<job, jobPc, taskIndex>>
    /\ UNCHANGED <<denoEnv, generatorVars, urlVars, overlapVars>>

\* the longest task list tried
MaxTasks == 2

mPre == <<"p">>

mPost == <<"q">>

cRed == <<"r", "e", "d">>

JobTask(kind, spawns, pre, preColor, post) ==
    [kind |-> kind, app |-> <<"g", "i", "t">>, spawns |-> spawns,
     preExecuteMsg |-> pre, preExecuteMsgColor |-> preColor,
     postExecuteMsg |-> post, postExecuteMsgColor |-> Undefined]

TaskPool ==
    {JobTask("command", TRUE, Some(mPre), Some(cRed), Some(mPost)),
     JobTask("command", TRUE, Undefined, Undefined, Undefined),
     JobTask("command", FALSE, Some(mPre), Undefined, Some(mPost)),
     JobTask("function", TRUE, Some(mPre), Undefined, Some(mPost)),
     JobTask("script", TRUE, Some(<<>>), Some(cRed), Some(mPost)),
     JobTask("unknown", TRUE, Some(mPre), Undefined, Some(mPost))}

\* job.env values: absent, plain with surrounding blanks, interpolated
JobEnvs ==
    {Undefined,
     Some(ObjLiteral(<<E(<<"A">>, <<" ", "x", " ">>),
                       E(<<"B">>, <<"$", "{", "A", "}">>)>>)),
     Some(ObjLiteral(<<E(<<"B">>, <<"$", "{", "H", "}">>),
                       E(<<"C">>, <<"$", "{", "N", "}">>)>>))}

Jobs ==
    {[preExecuteMsg |-> m.pre, preExecuteMsgColor |-> m.color,
      postExecuteMsg |-> m.post, postExecuteMsgColor |-> m.color,
      env |-> e, tasks |-> ts] :
        m \in {[pre |-> Undefined, post |-> Undefined, color |-> Undefined],
               [pre |-> Some(mPre), post |-> Some(mPost), color |-> Some(cRed)]},
        e \in JobEnvs,
        ts \in AllSeqs(TaskPool, MaxTasks)}

JobInit ==
    /\ job \in {Some(j) : j \in Jobs}
    /\ jobPc = "start"
    /\ taskIndex = 0
    /\ inFlight = {}
    /\ jobTrace = <<>>
    /\ denoEnv = ObjLiteral(<<E(<<"H">>, <<"h">>)>>)
    /\ GeneratorIdle
    /\ UrlIdle
    /\ OverlapIdle

JobNext ==
    \/ RunJob
    \/ \E i \in 1..MaxTasks, success \in BOOLEAN : TaskCompletes(i, success)

JobSpec == JobInit /\ [][JobNext]_vars

\* ------------------------------------------------------------------------
\* Several generateNotes calls on one ReleaseNotesGenerator instance
\* ------------------------------------------------------------------------
Calls == {1, 2}

\* the clients init constructs for the settings s (lines 507-509)
ClientsOf(s) ==
    [ownerName |-> s.ownerName, repoName |-> s.repoName,
     token |-> ObjGet(BaseEnv, s.githubTokenEnvVarName[1])]

sOwner2 == <<"o", "2">>

sRepo2 == <<"r", "2">>

\* the repositories on GitHub, by name: kd/sp as BaseTracker with an issue
\* and a pull request, o2/r2 without the label i and with other items
RepoTrackers(repoName) ==
    IF repoName = BaseSettings.repoName
    THEN [BaseTracker EXCEPT
             !.issues = <<Issue(40, tZ, <<sA>>, Undefined)>>,
             !.prs = <<Pr(41, tFixX, <<sB>>)>>]
    ELSE [BaseTracker EXCEPT
             !.labels = {sA, sB},
             !.issues = <<Issue(50, tAddV, <<sB>>, Undefined)>>,
             !.prs = <<>>]

\* a request as the tracker receives it: from the run r of the call c, sent
\* through a client constructed for the repository of target
SentRequest(c, r, req, target) ==
    [call |-> c, run |-> r, kind |-> req.kind, arg |-> req.arg,
     ownerName |-> target.ownerName, repoName |-> target.repoName]

\* what milestoneClient.getIssues / getPullRequests answers on the tracker t
MilestoneItemsOf(t, name, items) == IF name = t.milestone THEN items ELSE <<>>

\* the string generateNotes returns for the fetched issues and prs
\* (lines 437-487)
NotesOf(s, is, ps) ==
    LET typeSecs == buildCategoryIssueTypeSections(
                        OrElse(s.issueCategoryIssueTypeMappings, <<>>), is)
        issueSecs == buildCategoryLabelSections(
                        OrElse(s.issueCategoryLabelMappings, <<>>), is)
        prSecs == buildCategoryLabelSections(
                        OrElse(s.prCategoryLabelMappings, <<>>), ps)
        otherSecs == buildCategoryLabelSections(OtherCat(s), OtherCatIssues(s, is))
    IN Join(ReleaseNotesList(s, MergeSections(typeSecs, issueSecs, prSecs, otherSecs)),
            <<"\n">>)

\* generateNotes(settings) is called on the instance: init replaces the
\* clients of the instance and both validateSettings runs send their
\* repository check (lines 422-427, 494-536)
OverlapGenerateNotes(c) ==
    /\ calls[c].pc = "start"
    /\ LET s == calls[c].settings
       IN IF isNothing(s.githubTokenEnvVarName)
          THEN /\ calls' = [calls EXCEPT
                              ![c].pc = "failed",
                              ![c].error = Some(RequiredMsg("githubTokenEnvVarName"))]
               /\ UNCHANGED <<instClients, sent>>
          ELSE IF ~ObjHas(BaseEnv, s.githubTokenEnvVarName[1])
          THEN /\ calls' = [calls EXCEPT
                              ![c].pc = "failed",
                              ![c].error = Some(EnvMissingMsg(s.githubTokenEnvVarName[1]))]
               /\ UNCHANGED <<instClients, sent>>
          ELSE /\ instClients' = Some(ClientsOf(s))
               /\ IF RequiredFieldError(s) # Undefined
                  THEN /\ calls' = [calls EXCEPT
                                      ![c].val = [r \in Runs |-> ValRejected],
                                      ![c].unhandled = RequiredFieldError(s),
                                      ![c].error = RequiredFieldError(s),
                                      ![c].pc = "failed"]
                       /\ UNCHANGED sent
                  ELSE /\ calls' = [calls EXCEPT
                                      ![c].val = [r \in Runs |-> ValAwaitRepo],
                                      ![c].target = [r \in Runs |-> Some(ClientsOf(s))],
                                      ![c].pc = "validating"]
                       /\ sent' = sent \cup
                             {SentRequest(c, "bg", [kind |-> "repoExists", arg |-> <<>>],
                                          ClientsOf(s)),
                              SentRequest(c, "main", [kind |-> "repoExists", arg |-> <<>>],
                                          ClientsOf(s))}
    /\ UNCHANGED <<generatorVars, urlVars, jobVars>>

\* The effects of the validateSettings run r of the call c moving to the
\* state v; what it sends goes through the clients the instance holds now
OverlapValEffects(c, r, v, err) ==
    LET s == calls[c].settings
        now == instClients[1]
    IN IF v.st = "rejected"
       THEN /\ sent' = sent
            /\ IF r = "main"
               THEN calls' = [calls EXCEPT ![c].val[r] = v, ![c].pc = "failed",
                                           ![c].error = err]
               ELSE calls' = [calls EXCEPT ![c].val[r] = v, ![c].unhandled = err]
       ELSE IF v.st = "resolved"
       THEN IF r = "main"
            THEN /\ calls' = [calls EXCEPT ![c].val[r] = v,
                                           ![c].pc = "awaitIssues",
                                           ![c].fetchTarget = Some(now)]
                 /\ sent' = sent \cup
                               {SentRequest(c, r, [kind |-> "getIssues",
                                                   arg |-> buildMilestoneName(s)], now)}
            ELSE /\ calls' = [calls EXCEPT ![c].val[r] = v]
                 /\ sent' = sent
       ELSE /\ calls' = [calls EXCEPT ![c].val[r] = v, ![c].target[r] = Some(now)]
            /\ sent' = sent \cup {SentRequest(c, r, LabelRequests(v)[i], now) :
                                      i \in 1..Len(LabelRequests(v))}

\* the answer of repoClient.exists() arrives for the run r of the call c
OverlapRepoExistsResponse(c, r) ==
    /\ calls[c].pc \notin {"start", "exited"}
    /\ calls[c].val[r].st = "awaitRepo"
    /\ IF ~RepoTrackers(calls[c].target[r][1].repoName).exists
       THEN OverlapValEffects(c, r, ValRejected,
                              Some(RepoMissingMsg(calls[c].settings)))
       ELSE OverlapValEffects(c, r, ValAtGroup(calls[c].settings, 1), Undefined)
    /\ UNCHANGED <<instClients, generatorVars, urlVars, jobVars>>

\* the answer of the i-th labelClient.exists() of the current group arrives
\* for the run r of the call c
OverlapLabelExistsResponse(c, r, i) ==
    /\ calls[c].pc \notin {"start", "exited"}
    /\ calls[c].val[r].st = "awaitLabels"
    /\ i \in 1..Len(calls[c].val[r].results)
    /\ calls[c].val[r].results[i] = "pending"
    /\ LET old == calls[c].val[r]
           exists == old.labels[i] \in
                        RepoTrackers(calls[c].target[r][1].repoName).labels
           v == [old EXCEPT !.results[i] = IF exists THEN "true" ELSE "false"]
           results == v.results
       IN IF \E j \in 1..Len(results) : results[j] = "pending"
          THEN /\ calls' = [calls EXCEPT ![c].val[r] = v]
               /\ UNCHANGED sent
          ELSE IF \E j \in 1..Len(results) : results[j] = "false"
          THEN OverlapValEffects(c, r, ValRejected,
                   Some(LabelsMissingMsg(GroupNames[v.group], InvalidLabels(v))))
          ELSE OverlapValEffects(c, r, ValAtGroup(calls[c].settings, v.group + 1),
                                 Undefined)
    /\ UNCHANGED <<instClients, generatorVars, urlVars, jobVars>>

\* the answer of milestoneClient.getIssues arrives for the call c; getPrs
\* sends its request through the milestone client the instance holds now
OverlapGetIssuesResponse(c) ==
    /\ calls[c].pc = "awaitIssues"
    /\ LET s == calls[c].settings
           t == RepoTrackers(calls[c].fetchTarget[1].repoName)
           fetched == MilestoneItemsOf(t, buildMilestoneName(s), t.issues)
       IN IF FetchThrows(s, fetched)
          THEN /\ calls' = [calls EXCEPT ![c].pc = "failed",
                                         ![c].error = Some(ResolveErrorMsg)]
               /\ UNCHANGED sent
          ELSE /\ calls' = [calls EXCEPT
                              ![c].issues = FilterAndSanitize(s, fetched),
                              ![c].pc = "awaitPrs",
                              ![c].fetchTarget = instClients]
               /\ sent' = sent \cup
                             {SentRequest(c, "main",
                                  [kind |-> "getPullRequests",
                                   arg |-> buildMilestoneName(s)], instClients[1])}
    /\ UNCHANGED <<instClients, generatorVars, urlVars, jobVars>>

\* the answer of milestoneClient.getPullRequests arrives for the call c and
\* generateNotes runs to its return
OverlapGetPrsResponse(c) ==
    /\ calls[c].pc = "awaitPrs"
    /\ LET s == calls[c].settings
           t == RepoTrackers(calls[c].fetchTarget[1].repoName)
           fetched == MilestoneItemsOf(t, buildMilestoneName(s), t.prs)
       IN IF FetchThrows(s, fetched)
          THEN calls' = [calls EXCEPT ![c].pc = "failed",
                                      ![c].error = Some(ResolveErrorMsg)]
          ELSE calls' = [calls EXCEPT
                            ![c].prs = FilterAndSanitize(s, fetched),
                            ![c].notes = Some(NotesOf(s, calls[c].issues,
                                                      FilterAndSanitize(s, fetched))),
                            ![c].pc = "done"]
    /\ UNCHANGED <<instClients, sent, generatorVars, urlVars, jobVars>>

\* a rejected validateSettings run that init started is handled by nobody:
\* the runtime ends the process and with it every call that is not over
OverlapUnhandledExit ==
    /\ \E c \in Calls : calls[c].unhandled # Undefined
    /\ \E c \in Calls : calls[c].pc \notin Terminal \cup {"start"}
    /\ calls' = [c \in Calls |->
                    IF calls[c].pc \in Terminal THEN calls[c]
                    ELSE [calls[c] EXCEPT !.pc = "exited"]]
    /\ UNCHANGED <<instClients, sent, generatorVars, urlVars, jobVars>>

\* the settings of the calls: one of two repositories, with or without
\* ignoreLabels
OverlapSettings ==
    {[BaseSettings EXCEPT !.ownerName = o.owner, !.repoName = o.repo,
                          !.ignoreLabels = ig] :
        o \in {[owner |-> BaseSettings.ownerName, repo |-> BaseSettings.repoName],
               [owner |-> Some(sOwner2), repo |-> Some(sRepo2)]},
        ig \in {Undefined, Some(<<sI>>)}}

CallStart(s) ==
    [settings |-> s, pc |-> "start", val |-> [r \in Runs |-> ValIdle],
     target |-> [r \in Runs |-> Undefined], fetchTarget |-> Undefined,
     issues |-> <<>>, prs |-> <<>>, notes |-> Undefined, error |-> Undefined,
     unhandled |-> Undefined]

OverlapInit ==
    /\ instClients = Undefined
    /\ \E s1 \in OverlapSettings, s2 \in OverlapSettings :
          calls = [c \in Calls |-> CallStart(IF c = 1 THEN s1 ELSE s2)]
    /\ sent = {}
    /\ GeneratorIdle
    /\ UrlIdle
    /\ JobIdle

OverlapNext ==
    \/ \E c \in Calls : OverlapGenerateNotes(c)
    \/ \E c \in Calls, r \in Runs : OverlapRepoExistsResponse(c, r)
    \/ \E c \in Calls, r \in Runs, i \in 1..MaxLabels :
          OverlapLabelExistsResponse(c, r, i)
    \/ \E c \in Calls : OverlapGetIssuesResponse(c)
    \/ \E c \in Calls : OverlapGetPrsResponse(c)
    \/ OverlapUnhandledExit

OverlapSpec == OverlapInit /\ [][OverlapNext]_vars

\* ------------------------------------------------------------------------
\* Properties
\* ------------------------------------------------------------------------
\* the items of a fetched list that carry no ignored label, sanitized
SurvivorsSanitized(fetched) ==
    Map(SelectSeq(fetched, LAMBDA item :
                     NotIgnored(item, OrElse(settings.ignoreLabels, <<>>))),
        LAMBDA item : sanitizeItemTitle(settings, item))

FetchedIssues == MilestoneItems(buildMilestoneName(settings), tracker.issues)

FetchedPrs == MilestoneItems(buildMilestoneName(settings), tracker.prs)

\* C1: every issue and pull request that survives the ignore-label filter
\* reaches the categorizer with its title passed through sanitizeTitle,
\* whether ignoreLabels is absent, empty or non-empty.
C1_SurvivorsAreSanitized ==
    /\ pc \in {"awaitPrs", "done"} => issues = SurvivorsSanitized(FetchedIssues)
    /\ pc = "done" => prs = SurvivorsSanitized(FetchedPrs)

\* some run has sent a milestone lookup
MilestoneLookupSent ==
    \E r \in Runs : \E i \in 1..Len(reqLog[r]) :
        reqLog[r][i].kind \in {"getIssues", "getPullRequests"}

\* the tracker has answered `result` to the request of run r
Answered(r, kind, arg, result) ==
    [run |-> r, kind |-> kind, arg |-> arg, result |-> result] \in respLog

\* the labels of the group g that the repository does not have, in settings
\* order
MissingLabels(g) ==
    IF GroupDefined(settings, g)
    THEN SelectSeq(GroupLabels(settings, g), LAMBDA l : l \notin tracker.labels)
    ELSE <<>>

\* C2: a milestone lookup is sent only after the awaited validation has been
\* told that the repository exists and that every label of the three label
\* settings exists; with a missing repository or label no lookup is ever sent
\* and generateNotes does not produce notes.
C2_NoLookupBeforeValidation ==
    /\ MilestoneLookupSent =>
          /\ Answered("main", "repoExists", <<>>, TRUE)
          /\ \A g \in 1..3 :
                GroupDefined(settings, g) =>
                    \A i \in 1..Len(GroupLabels(settings, g)) :
                        Answered("main", "labelExists", GroupLabels(settings, g)[i], TRUE)
    /\ (~tracker.exists \/ \E g \in 1..3 : MissingLabels(g) # <<>>) =>
          /\ ~MilestoneLookupSent
          /\ pc \notin {"awaitIssues", "awaitPrs", "done"}
          /\ notes = Undefined

C2_Witness ==
    /\ pc = "done"
    /\ MilestoneLookupSent
    /\ \A g \in 1..3 : GroupDefined(settings, g) /\ GroupLabels(settings, g) # <<>>

\* the settings pass init and the checks that precede the label validation
ReachesLabelValidation ==
    /\ ~isNothing(settings.githubTokenEnvVarName)
    /\ ObjHas(env, settings.githubTokenEnvVarName[1])
    /\ RequiredFieldError(settings) = Undefined
    /\ tracker.exists

\* C3 as stated: for each setting group with a missing label the error of
\* generateNotes names that group and lists all its missing labels.
C3_EveryGroupReported ==
    \A g \in 1..3 :
        (pc = "failed" /\ ReachesLabelValidation /\ MissingLabels(g) # <<>>) =>
            error = Some(LabelsMissingMsg(GroupNames[g], MissingLabels(g)))

\* the first group, in validation order, that has a missing label
FirstMissingGroup == CHOOSE g \in 1..3 :
    /\ MissingLabels(g) # <<>>
    /\ \A h \in 1..(g - 1) : MissingLabels(h) = <<>>

\* C3 (amended): when labels are missing, the error generateNotes fails with
\* (and the error of the validation run nobody awaits) names the first
\* setting group, in the order issueCategoryLabelMappings,
\* prCategoryLabelMappings, ignoreLabels, that has a missing label and lists
\* every missing label of that group in settings order.
C3_FirstGroupReported ==
    (ReachesLabelValidation /\ \E g \in 1..3 : MissingLabels(g) # <<>>) =>
        LET msg == Some(LabelsMissingMsg(GroupNames[FirstMissingGroup],
                                         MissingLabels(FirstMissingGroup)))
        IN /\ pc = "failed" => error = msg
           /\ val["main"].st = "rejected" => pc = "failed"
           /\ unhandled # Undefined => unhandled = msg
           /\ pc # "done"

C3_Witness ==
    /\ pc = "failed"
    /\ ReachesLabelValidation
    /\ \E g \in 1..3 : MissingLabels(g) # <<>>
    /\ Len(MissingLabels(FirstMissingGroup)) >= 2
    /\ \E g \in 1..3 : g # FirstMissingGroup /\ MissingLabels(g) # <<>>

\* the lines of the section named name, <<>> when there is no such section
SectionLines(sections, name) ==
    IF ObjHas(sections, name) THEN ObjGet(sections, name) ELSE <<>>

\* a line item of the issue or pull request is among the lines
Listed(lines, item) ==
    \E j \in 1..Len(lines) : \E n \in 0..Len(lines) :
        lines[j] = buildLineItem(item, n)

\* the issue carries no key of issueCategoryLabelMappings and its type is no
\* key of issueCategoryIssueTypeMappings
Uncategorized(issue) ==
    /\ \A i \in 1..Len(OrElse(settings.issueCategoryLabelMappings, <<>>)) :
          ~HasLabel(issue, settings.issueCategoryLabelMappings[1][i].k)
    /\ \A i \in 1..Len(OrElse(settings.issueCategoryIssueTypeMappings, <<>>)) :
          ~HasType(issue, settings.issueCategoryIssueTypeMappings[1][i].k)

\* C4: with otherCategoryName set, every non-ignored issue without a mapped
\* label and without a mapped issue type is listed in the 'other' section of
\* the output, whatever labels it carries.
C4_UncategorizedListedInOther ==
    (pc = "done" /\ settings.otherCategoryName # Undefined) =>
        \A i \in 1..Len(issues) :
            Uncategorized(issues[i]) =>
                Listed(SectionLines(categorySections, settings.otherCategoryName[1]),
                       issues[i])

\* C5: an issue is selected for the 'other' bucket only if it carries no key
\* of issueCategoryLabelMappings and its type is no key of
\* issueCategoryIssueTypeMappings, so no issue placed by the issue-label or
\* issue-type pass is selected for 'other'.
C5_OtherOnlyUncategorized ==
    pc = "done" =>
        \A i \in 1..Len(otherCatIssues) : Uncategorized(otherCatIssues[i])

\* C6: a rendered 'other' section begins with the h2 header line of the raw
\* otherCategoryName, followed by a blank line and the numbered items.
C6_OtherHeaderIsName ==
    (pc = "done" /\ otherIssueCatSection # <<>>) =>
        /\ settings.otherCategoryName # Undefined
        /\ otherIssueCatSection[1].v[1] =
              <<H2Open>> \o settings.otherCategoryName[1] \o <<H2Close, "\n">>

\* the issue / pull request numbers of the line items that follow the header
ItemNumbers(lines) == [j \in 1..(Len(lines) - 1) |-> lines[j + 1][6]]

NumbersOf(items) == [i \in 1..Len(items) |-> ToString(items[i].number)]

CarriesLabel(item, name) == name \in Range(item.labels)

IsOfType(issue, name) == issue.type = Some(name)

DisplayName(key) == Trim(ReplaceAll(key, <<"-">>, <<" ">>))

RECURSIVE TypeSelection(_, _)
\* the numbers of the issues the issue-type mapping entries with the display
\* name dn select, entry after entry
TypeSelection(entries, dn) ==
    IF entries = <<>> THEN <<>>
    ELSE (IF DisplayName(entries[1].k) = dn
          THEN NumbersOf(SelectSeq(issues, LAMBDA x : IsOfType(x, entries[1].k)))
          ELSE <<>>)
         \o TypeSelection(Tail(entries), dn)

TypeMapping == OrElse(settings.issueCategoryIssueTypeMappings, <<>>)

IssueLabelMapping == OrElse(settings.issueCategoryLabelMappings, <<>>)

PrLabelMapping == OrElse(settings.prCategoryLabelMappings, <<>>)

\* the sections of a label pass hold, for each key, the items carrying a
\* label named as the key, in fetch order
LabelPassMatchesKeys(sections, mapping, items) ==
    /\ \A i \in 1..Len(sections) : sections[i].k \in Range(ObjKeys(mapping))
    /\ \A i \in 1..Len(mapping) :
          ItemNumbers(SectionLines(sections, mapping[i].k)) =
              NumbersOf(SelectSeq(items, LAMBDA x : CarriesLabel(x, mapping[i].k)))

HeaderLine(value) == <<H2Open>> \o value \o <<H2Close, "\n">>

\* the section starts with the header of a value mapped from a key with this
\* section name and numbers its items 1, 2, ..., k
WellFormedSection(section, mapping, isTypePass) ==
    /\ \E i \in 1..Len(mapping) :
          /\ section.k = IF isTypePass THEN DisplayName(mapping[i].k) ELSE mapping[i].k
          /\ section.v[1] = HeaderLine(mapping[i].v[1])
    /\ \A j \in 2..Len(section.v) : section.v[j][1] = ToString(j - 1)

\* C8: every category section of a mapping pass is the h2 header of the
\* mapped value, a blank line, and the matched items numbered 1, 2, ..., k
\* without gaps or repeats, also for issue-type keys that share one display
\* name.
C8_SectionsNumbered ==
    pc = "done" =>
        /\ \A i \in 1..Len(issueTypeCatSections) :
              WellFormedSection(issueTypeCatSections[i], TypeMapping, TRUE)
        /\ \A i \in 1..Len(issueCatSections) :
              WellFormedSection(issueCatSections[i], IssueLabelMapping, FALSE)
        /\ \A i \in 1..Len(prCatSections) :
              WellFormedSection(prCatSections[i], PrLabelMapping, FALSE)

\* 1 .. 4: the last of the passes issue-type, issue-label, PR-label, other
\* that produced a section named name; the merged section shows its lines
PassOf(name) ==
    IF ObjHas(otherIssueCatSection, name) THEN 4
    ELSE IF ObjHas(prCatSections, name) THEN 3
    ELSE IF ObjHas(issueCatSections, name) THEN 2
    ELSE 1

\* the sections of the four passes, in pass order
PassSections ==
    <<issueTypeCatSections, issueCatSections, prCatSections, otherIssueCatSection>>

\* 1-based position of the first x in the sequence q, 0 when x is not in q
FirstPos(q, x) ==
    IF \E i \in 1..Len(q) : q[i] = x
    THEN CHOOSE i \in 1..Len(q) : q[i] = x /\ \A j \in 1..(i - 1) : q[j] # x
    ELSE 0

\* the names of the mapping entries that match an item, in mapping order
MatchedNames(mapping, items, isTypePass) ==
    LET matched == SelectSeq(mapping, LAMBDA e :
                       \E i \in 1..Len(items) :
                           IF isTypePass THEN IsOfType(items[i], e.k)
                           ELSE CarriesLabel(items[i], e.k))
    IN [i \in 1..Len(matched) |->
           IF isTypePass THEN DisplayName(matched[i].k) ELSE matched[i].k]

\* the mapping the 'other' pass hands to buildCategoryLabelSections
OtherMapping ==
    IF settings.otherCategoryName = Undefined THEN <<>>
    ELSE <<[k |-> settings.otherCategoryName[1], v |-> Undefined]>>

\* the category names in the order the passes produce them
ProducedNames ==
    MatchedNames(TypeMapping, issues, TRUE)
        \o MatchedNames(IssueLabelMapping, issues, FALSE)
        \o MatchedNames(PrLabelMapping, prs, FALSE)
        \o MatchedNames(OtherMapping, otherCatIssues, FALSE)

\* C9 as stated: the sections of the document are ordered by pass, and
\* within a pass by the iteration order of the mapping; no section of a
\* later pass precedes a section of an earlier pass.
C9_SectionsInPassOrder ==
    pc = "done" =>
        \A i, j \in 1..Len(categorySections) :
            i < j =>
                LET a == categorySections[i].k
                    b == categorySections[j].k
                IN /\ PassOf(a) <= PassOf(b)
                   /\ PassOf(a) = PassOf(b) =>
                         FirstPos(ObjKeys(PassSections[PassOf(a)]), a)
                             < FirstPos(ObjKeys(PassSections[PassOf(a)]), b)

\* the name a enumerates before the name b in an object that received its
\* names in the order q
EnumeratesBefore(q, a, b) ==
    IF IsArrayIndex(a) THEN IsArrayIndex(b) => NumLess(a, b)
    ELSE ~IsArrayIndex(b) /\ FirstPos(q, a) < FirstPos(q, b)

\* C9 (amended): the sections appear in the property order of the merged
\* object: names that are array indices first, in ascending numeric order,
\* then the other names in the order in which they are first produced
\* (issue-type, issue-label, PR-label, other; within a pass in mapping
\* order).  A name produced by several passes keeps its first position.
C9_SectionsInFirstProductionOrder ==
    pc = "done" =>
        /\ Range(ObjKeys(categorySections)) = Range(ProducedNames)
        /\ \A i, j \in 1..Len(categorySections) :
              i < j => EnumeratesBefore(ProducedNames, categorySections[i].k,
                                        categorySections[j].k)

C9_Witness ==
    /\ pc = "done"
    /\ \E i, j \in 1..Len(categorySections) :
          /\ i < j
          /\ ~IsArrayIndex(categorySections[i].k)
          /\ PassOf(categorySections[i].k) > PassOf(categorySections[j].k)

\* the lines of the last pass that produced the name
LastPassLines(name) == ObjGet(PassSections[PassOf(name)], name)

\* C10: a category name produced by two passes shows only the section of
\* the later pass: its header and items replace the earlier section and
\* nothing of the earlier pass is kept.
C10_LaterPassOverwrites ==
    pc = "done" =>
        /\ \A p \in 1..4 : \A i \in 1..Len(PassSections[p]) :
              ObjHas(categorySections, PassSections[p][i].k)
        /\ \A i \in 1..Len(categorySections) :
              categorySections[i].v = LastPassLines(categorySections[i].k)

C10_Witness ==
    /\ pc = "done"
    /\ \E i \in 1..Len(issueCatSections) :
          /\ ObjHas(prCatSections, issueCatSections[i].k)
          /\ ObjGet(prCatSections, issueCatSections[i].k) # issueCatSections[i].v

\* the names of the sections of one pass
SectionNames(sections) == Range(ObjKeys(sections))

ListedNumbers ==
    UNION {Range(ItemNumbers(categorySections[i].v)) :
              i \in 1..Len(categorySections)}

IgnoreLabels == OrElse(settings.ignoreLabels, <<>>)

\* the item carries a label whose name is an entry of ignoreLabels
CarriesIgnored(item) == \E l \in Range(item.labels) : l \in Range(IgnoreLabels)

\* C12: with a non-empty ignoreLabels, no issue or pull request carrying a
\* label named as an entry of ignoreLabels is in a section of the document,
\* and the items carrying none are all kept, in fetch order, for the
\* categorizer.
C12_IgnoredItemsExcluded ==
    (pc = "done" /\ IgnoreLabels # <<>>) =>
        /\ \A i \in 1..Len(FetchedIssues) :
              CarriesIgnored(FetchedIssues[i]) =>
                  ToString(FetchedIssues[i].number) \notin ListedNumbers
        /\ \A i \in 1..Len(FetchedPrs) :
              CarriesIgnored(FetchedPrs[i]) =>
                  ToString(FetchedPrs[i].number) \notin ListedNumbers
        /\ NumbersOf(issues) =
              NumbersOf(SelectSeq(FetchedIssues, LAMBDA x : ~CarriesIgnored(x)))
        /\ NumbersOf(prs) =
              NumbersOf(SelectSeq(FetchedPrs, LAMBDA x : ~CarriesIgnored(x)))

C12_Witness ==
    /\ pc = "done"
    /\ IgnoreLabels # <<>>
    /\ \E i \in 1..Len(FetchedIssues) :
          /\ CarriesIgnored(FetchedIssues[i])
          /\ Len(FetchedIssues[i].labels) >= 2
          /\ ~Includes(IgnoreLabels, FetchedIssues[i].labels[1])
    /\ \E i \in 1..Len(FetchedIssues) :
          /\ ~CarriesIgnored(FetchedIssues[i])
          /\ ToString(FetchedIssues[i].number) \in ListedNumbers

\* the title the tracker answered for the item with this number
RawTitle(fetched, number) ==
    fetched[CHOOSE i \in 1..Len(fetched) : fetched[i].number = number].title

\* the titles that went through sanitizeTitle so far: raw is the title the
\* tracker answered, out the title the categorizer gets
SanitizedPairs ==
    IF IgnoreLabels = <<>> THEN {}
    ELSE (IF pc \in {"awaitPrs", "done"}
          THEN {[raw |-> RawTitle(FetchedIssues, issues[j].number),
                 out |-> issues[j].title] : j \in 1..Len(issues)}
          ELSE {})
         \cup
         (IF pc = "done"
          THEN {[raw |-> RawTitle(FetchedPrs, prs[j].number),
                 out |-> prs[j].title] : j \in 1..Len(prs)}
          ELSE {})

\* sub is a substring of t
Contains(t, sub) == \E i \in 1..(Len(t) + 1) : OccursAt(t, sub, i)

\* the text of t before its first space
FirstToken(t) ==
    IF \E i \in 1..Len(t) : t[i] = " "
    THEN SubSeq(t, 1, (CHOOSE i \in 1..Len(t) :
                          t[i] = " " /\ \A j \in 1..(i - 1) : t[j] # " ") - 1)
    ELSE t

\* the text of t from its first space on
AfterFirstToken(t) == SubSeq(t, Len(FirstToken(t)) + 1, Len(t))

\* w with its first character in upper case
UpperFirst(w) == IF w = <<>> THEN w ELSE <<ToUpperChar(w[1])>> \o Tail(w)

Emojis == OrElse(settings.emojisToRemoveFromTitle, <<>>)

WordReplacements == OrElse(settings.wordReplacements, <<>>)

FirstWordReplacements == OrElse(settings.firstWordReplacements, <<>>)

StyledWords == OrElse(settings.styledWordsList, <<>>)

NoEmojiIn(t) == \A i \in 1..Len(Emojis) : ~Contains(t, Emojis[i])

NoWordKeyIn(t) ==
    \A i \in 1..Len(WordReplacements) : ~Contains(t, WordReplacements[i].k)

NoFirstWordKey(t) ==
    \A i \in 1..Len(FirstWordReplacements) :
        UpperFirst(FirstToken(t)) # FirstWordReplacements[i].k

NoStyledWordIn(t) ==
    \A i \in 1..Len(StyledWords) : ~Contains(t, StyledWords[i].k)

NoDigitIn(t) == \A i \in 1..Len(t) : t[i] \notin Digits

\* the emoji, word, first-word and styled-word stages have nothing to do
WordStagesIdle(t) ==
    NoEmojiIn(t) /\ NoWordKeyIn(t) /\ NoFirstWordKey(t) /\ NoStyledWordIn(t)

\* text between two copies of mark when on
Marked(text, mark, on) == IF on THEN mark \o text \o mark ELSE text

\* v<major>.<minor>.<patch> of the components, missing ones filled with 0
FullVersionOf(comps) ==
    <<"v">> \o JoinDots(comps \o [i \in 1..(MaxComponents - Len(comps)) |-> <<"0">>])

\* the full version in '**' when boldedVersions and in '_' when italicVersions
StyledVersionOf(comps) ==
    Marked(Marked(FullVersionOf(comps), <<"*", "*">>, settings.boldedVersions),
           <<"_">>, settings.italicVersions)

\* C13: a title with one version of an optional 'v' and one to three numeric
\* components comes out with the version replaced by v<major>.<minor>.<patch>
\* (missing components 0), wrapped in '**' when boldedVersions and in '_' when
\* italicVersions, and the rest of the title as it was.
C13_VersionResolved ==
    \A p \in SanitizedPairs :
        \A pre \in VersionPres, pv \in VersionPrefixes,
           comps \in ComponentSeqs, post \in VersionPosts :
            (p.raw = pre \o pv \o JoinDots(comps) \o post /\ WordStagesIdle(p.raw)) =>
                p.out = pre \o StyledVersionOf(comps) \o post

C13_Witness ==
    /\ pc = "done"
    /\ settings.boldedVersions /\ settings.italicVersions
    /\ \E p \in SanitizedPairs :
          /\ p.raw = <<"a", " ", "v", "1", "2", ".", "0", " ", "b">>
          /\ p.out = <<"a", " ", "_", "*", "*", "v", "1", "2", ".", "0", ".", "0", "*", "*", "_", " ", "b">>

\* the versions resolveVersionToFull is called with for the title
MatchedVersions(t) == MatchAllFrom(TitleWithoutPrefixes(settings, t), 1, FALSE)

\* a matched version of the title has more than three groups between dots
HasLongVersion(t) ==
    \E i \in 1..Len(MatchedVersions(t)) :
        Len(Split(MatchedVersions(t)[i], ".")) > MaxComponents

\* C14: when a matched version of a title that is sanitized has more than
\* three dot-separated groups, generateNotes fails with the 'Cannot resolve
\* version' error: it neither goes on to the pull requests nor returns notes.
C14_LongVersionAborts ==
    (IgnoreLabels # <<>> /\
     \E i \in 1..Len(FetchedIssues) :
         /\ ~CarriesIgnored(FetchedIssues[i])
         /\ HasLongVersion(FetchedIssues[i].title)) =>
        /\ pc \notin {"awaitPrs", "done"}
        /\ pc = "failed" => error = Some(ResolveErrorMsg)

\* C15 as stated: sanitizing a sanitized title again with the same settings
\* gives the same title.
C15_SanitizeIdempotent ==
    \A p \in SanitizedPairs : sanitizeTitle(settings, p.out) = p.out

\* the settings configure nothing but the version styles
OnlyVersionStyles ==
    Emojis = <<>> /\ WordReplacements = <<>> /\ FirstWordReplacements = <<>>
        /\ StyledWords = <<>>

\* C15 (amended): with only the version styles configured, a title without
\* digits is a fixed point, and for a title with one version of one to three
\* numeric components a second pass keeps the resolved version and the rest
\* of the title and wraps the version once more in the configured markers;
\* it is a fixed point exactly when neither style is set.
C15_SecondPassWrapsAgain ==
    OnlyVersionStyles =>
        \A p \in SanitizedPairs :
            /\ NoDigitIn(p.raw) => sanitizeTitle(settings, p.out) = p.raw
            /\ \A pre \in VersionPres, pv \in VersionPrefixes,
                  comps \in ComponentSeqs, post \in VersionPosts :
                   p.raw = pre \o pv \o JoinDots(comps) \o post =>
                       sanitizeTitle(settings, p.out) =
                           pre \o Marked(Marked(StyledVersionOf(comps), <<"*", "*">>,
                                                settings.boldedVersions),
                                         <<"_">>, settings.italicVersions)
                               \o post

C15_Witness ==
    /\ pc = "done"
    /\ OnlyVersionStyles
    /\ settings.boldedVersions /\ ~settings.italicVersions
    /\ \E p \in SanitizedPairs :
          /\ p.raw = <<"v", "1", "2">>
          /\ p.out = <<"*", "*", "v", "1", "2", ".", "0", ".", "0", "*", "*">>
          /\ sanitizeTitle(settings, p.out) = <<"*", "*", "*", "*", "v", "1", "2", ".", "0", ".", "0", "*", "*", "*", "*">>

\* C16: a title without a configured emoji, without a wordReplacements key,
\* whose first token does not match a firstWordReplacements key, without a
\* styledWordsList word and without a digit comes out of sanitizeTitle
\* unchanged.
C16_UnmatchedTitleUnchanged ==
    \A p \in SanitizedPairs :
        (WordStagesIdle(p.raw) /\ NoDigitIn(p.raw)) => p.out = p.raw

C16_Witness ==
    /\ pc = "done"
    /\ Emojis # <<>> /\ WordReplacements # <<>> /\ FirstWordReplacements # <<>>
    /\ StyledWords # <<>> /\ settings.boldedVersions
    /\ \E p \in SanitizedPairs :
          /\ p.raw = tFiXQ
          /\ WordStagesIdle(p.raw) /\ NoDigitIn(p.raw)

\* the settings configure nothing but firstWordReplacements
OnlyFirstWords ==
    Emojis = <<>> /\ WordReplacements = <<>> /\ StyledWords = <<>>
        /\ FirstWordReplacements # <<>>

\* the key applies to the first token: the token with its first character in
\* upper case is the key, or the token is the key as written
KeyApplies(key, token) == UpperFirst(token) = key \/ token = key

\* C17: the first token of a title is replaced by the value of the first key
\* of firstWordReplacements that applies to it, a key written in lower case
\* included, and by nothing else; the rest of the title is unchanged.
C17_FirstWordReplaced ==
    OnlyFirstWords =>
        \A p \in SanitizedPairs :
            NoDigitIn(p.raw) =>
                LET token == FirstToken(p.raw)
                    applying == SelectSeq(FirstWordReplacements,
                                          LAMBDA e : KeyApplies(e.k, token))
                IN p.out = IF applying = <<>> THEN p.raw
                           ELSE applying[1].v \o AfterFirstToken(p.raw)

\* no run has sent a request to the tracker and no answer has arrived
NoRequestSent == (\A r \in Runs : reqLog[r] = <<>>) /\ respLog = {}

\* the environment variable named by githubTokenEnvVarName is not set, or is
\* set to the empty string
TokenAbsentOrEmpty ==
    /\ ~isNothing(settings.githubTokenEnvVarName)
    /\ \/ ~ObjHas(env, settings.githubTokenEnvVarName[1])
       \/ ObjGet(env, settings.githubTokenEnvVarName[1]) = <<>>

\* C18: when the environment variable named by githubTokenEnvVarName is
\* absent or empty, generateNotes fails and no request is sent to the tracker.
C18_FailsWithoutToken ==
    TokenAbsentOrEmpty =>
        /\ pc \in {"start", "failed"}
        /\ NoRequestSent

\* the required settings that are missing or empty, in the given order
MissingOf(order) == SelectSeq(order, LAMBDA f : isNothing(settings[f]))

RequiredSettings == <<"ownerName", "repoName", "headerText", "githubTokenEnvVarName">>

RequiredMissing == MissingOf(RequiredSettings) # <<>>

\* C19: when ownerName, repoName, headerText or githubTokenEnvVarName is
\* missing or empty, generateNotes fails with an error and neither it nor the
\* validation started by init has sent a request to the tracker.
C19_NoRequestWhenRequiredMissing ==
    RequiredMissing =>
        /\ pc \in {"start", "failed"}
        /\ pc = "failed" => error # Undefined
        /\ NoRequestSent

C19_Witness ==
    /\ pc = "failed"
    /\ clients # Undefined
    /\ MissingOf(RequiredSettings) = <<"headerText">>
    /\ NoRequestSent

\* C20 as stated: the error names the first missing required setting in the
\* order ownerName, repoName, headerText, githubTokenEnvVarName.
C20_FirstMissingInListedOrder ==
    (pc = "failed" /\ RequiredMissing) =>
        error = Some(RequiredMsg(MissingOf(RequiredSettings)[1]))

\* the order in which init and validateSettings look at the required settings
CheckedOrder == <<"githubTokenEnvVarName", "ownerName", "repoName", "headerText">>

\* C20 (amended): the error names the first missing required setting in the
\* order githubTokenEnvVarName, ownerName, repoName, headerText; when
\* githubTokenEnvVarName is set and the environment variable it names is
\* absent, the error reports that variable, whatever else is missing.
C20_FirstMissingInCodeOrder ==
    (pc = "failed" /\ RequiredMissing) =>
        error = IF isNothing(settings.githubTokenEnvVarName)
                THEN Some(RequiredMsg("githubTokenEnvVarName"))
                ELSE IF ~ObjHas(env, settings.githubTokenEnvVarName[1])
                THEN Some(EnvMissingMsg(settings.githubTokenEnvVarName[1]))
                ELSE Some(RequiredMsg(MissingOf(CheckedOrder)[1]))

C20_Witness ==
    /\ pc = "failed"
    /\ isNothing(settings.ownerName)
    /\ isNothing(settings.repoName)
    /\ isNothing(settings.githubTokenEnvVarName)
    /\ error = Some(RequiredMsg("githubTokenEnvVarName"))

\* the last n requests the run r has sent
LastRequests(r, n) == SubSeq(reqLog[r], Len(reqLog[r]) - n + 1, Len(reqLog[r]))

\* the error a validation run fails with when labels are missing
MissingLabelsError ==
    Some(LabelsMissingMsg(GroupNames[FirstMissingGroup],
                          MissingLabels(FirstMissingGroup)))

\* C21: while a validation run waits for the label checks of a group, the
\* checks of all labels of the group have been sent, answers are recorded as
\* they arrive in any order, and the run has neither failed nor moved on,
\* whatever answers it already has; once it has decided, the outcome is the
\* one the settings and the repository determine: it passed the group only if
\* no label of the group is missing, and it failed with the missing labels of
\* the group in settings order.
C21_BatchThenDecide ==
    \A r \in Runs :
        /\ val[r].st = "awaitLabels" =>
              LET n == Len(val[r].labels)
              IN /\ val[r].labels = GroupLabels(settings, val[r].group)
                 /\ n <= Len(reqLog[r])
                 /\ LastRequests(r, n) =
                       [i \in 1..n |-> [kind |-> "labelExists", arg |-> val[r].labels[i]]]
                 /\ \A i \in 1..n :
                       val[r].results[i] # "pending" =>
                           /\ Answered(r, "labelExists", val[r].labels[i],
                                       val[r].labels[i] \in tracker.labels)
                           /\ val[r].results[i] =
                                  IF val[r].labels[i] \in tracker.labels
                                  THEN "true" ELSE "false"
                 /\ \E i \in 1..n : val[r].results[i] = "pending"
                 /\ r = "main" => pc \in {"validating", "exited"} /\ error = Undefined
                 /\ r = "bg" => unhandled = Undefined
        /\ \A g \in 1..3 :
              (val[r].st \in {"awaitLabels", "resolved"} /\ val[r].group > g) =>
                  MissingLabels(g) = <<>>
        /\ (val[r].st = "rejected" /\ ReachesLabelValidation) =>
              /\ \E g \in 1..3 : MissingLabels(g) # <<>>
              /\ r = "main" => error = MissingLabelsError
              /\ r = "bg" => unhandled = MissingLabelsError

C21_Witness ==
    \E r \in Runs :
        /\ val[r].st = "awaitLabels"
        /\ val[r].results = <<"pending", "false">>
        /\ val[CHOOSE q \in Runs : q # r].st = "rejected"

\* the label-existence checks sent for the label name, by any run
LabelChecks(name) ==
    {<<r, i>> \in Runs \X (1..(3 * MaxLabels + 1)) :
        /\ i <= Len(reqLog[r])
        /\ reqLog[r][i] = [kind |-> "labelExists", arg |-> name]}

\* the label names a check has been sent for
CheckedLabels ==
    {reqLog[r][i].arg : <<r, i>> \in
        {<<r, i>> \in Runs \X (1..(3 * MaxLabels + 1)) :
            i <= Len(reqLog[r]) /\ reqLog[r][i].kind = "labelExists"}}

\* C22: during a generateNotes call at most one label-existence check is
\* sent for a label name.
C22_EachLabelCheckedOnce ==
    \A name \in CheckedLabels : Cardinality(LabelChecks(name)) = 1

\* the repository-existence checks sent, by any run
RepoChecks ==
    {<<r, i>> \in Runs \X (1..(3 * MaxLabels + 1)) :
        i <= Len(reqLog[r]) /\ reqLog[r][i].kind = "repoExists"}

\* C25: a generateNotes call has one validation run, the awaited one: there
\* is no run started by init, no rejection nobody handles, and the
\* repository-existence check is sent once.
C25_SingleAwaitedValidation ==
    /\ val["bg"].st = "idle"
    /\ unhandled = Undefined
    /\ Cardinality(RepoChecks) <= 1

\* C28: when the items are categorized, every key of
\* issueCategoryLabelMappings and prCategoryLabelMappings, the name item
\* labels are matched against, has been confirmed to exist under that name.
C28_MatchedLabelsValidated ==
    pc \in {"awaitIssues", "awaitPrs", "done"} =>
        /\ \A i \in 1..Len(IssueLabelMapping) :
              Answered("main", "labelExists", IssueLabelMapping[i].k, TRUE)
        /\ \A i \in 1..Len(PrLabelMapping) :
              Answered("main", "labelExists", PrLabelMapping[i].k, TRUE)

RECURSIVE SubstituteFirst(_, _)
\* the template with the first occurrence of each placeholder of the mapping
\* subst replaced by the characters of its value, every other character kept
SubstituteFirst(template, subst) ==
    IF template = <<>> THEN <<>>
    ELSE IF ObjHas(subst, <<template[1]>>)
    THEN ObjGet(subst, <<template[1]>>)
         \o SubstituteFirst(Tail(template),
                            SelectSeq(subst, LAMBDA e : e.k # <<template[1]>>))
    ELSE <<template[1]>> \o SubstituteFirst(Tail(template), subst)

\* milestoneName with the placeholders replaced by the values of the settings
LiteralMilestoneName ==
    SubstituteFirst(settings.milestoneName,
        <<E(<<PhVersion>>, OrElse(settings.version, <<>>)),
          E(<<PhEnvironment>>, OrElse(settings.releaseType, <<>>)),
          E(<<PhRepoName>>, OrElse(settings.repoName, <<>>))>>)

\* the milestone names sent with requests of the kind
MilestoneNamesSent(kind) ==
    {reqLog["main"][i].arg : i \in
        {i \in 1..Len(reqLog["main"]) : reqLog["main"][i].kind = kind}}

\* C24: the issue lookup and the pull-request lookup are sent the same
\* milestone name: milestoneName with the first occurrence of ${VERSION},
\* ${ENVIRONMENT} and ${REPONAME} replaced, character for character, by
\* version, releaseType and repoName (the empty string for an absent version
\* or releaseType), every other character of the template unchanged.
C24_MilestoneNameLiteral ==
    /\ MilestoneNamesSent("getIssues") \subseteq {LiteralMilestoneName}
    /\ MilestoneNamesSent("getPullRequests") \subseteq {LiteralMilestoneName}

\* the position of the first "-" or "+" of the version, Len + 1 for none
SuffixStart(version) ==
    IF \E i \in 1..Len(version) : version[i] \in {"-", "+"}
    THEN CHOOSE i \in 1..Len(version) :
            /\ version[i] \in {"-", "+"}
            /\ \A j \in 1..(i - 1) : version[j] \notin {"-", "+"}
    ELSE Len(version) + 1

\* the numeric core of the version completed to three components, followed
\* by its pre-release or build suffix
CompleteCore(version) ==
    LET core == SubSeq(version, 1, SuffixStart(version) - 1)
        suffix == SubSeq(version, SuffixStart(version), Len(version))
        n == Len(Split(core, "."))
    IN core \o (IF n = 1 THEN <<".", "0", ".", "0">>
                ELSE IF n = 2 THEN <<".", "0">> ELSE <<>>) \o suffix

RECURSIVE RewriteEachOnce(_, _, _, _, _)
\* the title from position i on with every version occurrence (with or
\* without the "v" prefix) rewritten once, left to right, to the styled
\* "v" + resolved version, the resolution being resolveVersionToFull or, with
\* coreOnly, the completion of the numeric core
RewriteEachOnce(title, i, isBold, isItalic, coreOnly) ==
    IF i > Len(title) THEN <<>>
    ELSE LET p == MatchPrefixedAt(title, i)
             e == IF p # 0 THEN p ELSE MatchVersionAt(title, i)
             from == IF p # 0 THEN i + 1 ELSE i
             Resolve(version) == IF coreOnly THEN CompleteCore(version)
                                 ELSE resolveVersionToFull(version)
         IN IF e = 0
            THEN <<title[i]>> \o RewriteEachOnce(title, i + 1, isBold, isItalic, coreOnly)
            ELSE Wrap(<<"v">> \o Resolve(SubSeq(title, from, e - 1)), isBold, isItalic)
                 \o RewriteEachOnce(title, e, isBold, isItalic, coreOnly)

\* C26: with only the version styles configured, the sanitized title is the
\* raw title with each version occurrence rewritten exactly once to the
\* styled v<resolved version>; no replacement touches text an earlier
\* replacement inserted.
C26_EachVersionRewrittenOnce ==
    \A p \in SanitizedPairs :
        OnlyVersionStyles =>
            p.out = RewriteEachOnce(p.raw, 1, settings.boldedVersions,
                                    settings.italicVersions, FALSE)

\* the raw title holds one version, and that version carries a suffix
OneSuffixedVersion(raw) ==
    LET versions == MatchAllFrom(TitleWithoutPrefixes(settings, raw), 1, FALSE)
    IN /\ Len(versions) = 1
       /\ SuffixStart(versions[1]) <= Len(versions[1])

\* C27: with only the version styles configured, a title with one version
\* that carries a pre-release or build suffix is sanitized to the title with
\* the version's numeric core completed to major.minor.patch and the suffix
\* kept after the core.
C27_SuffixKeptAfterCore ==
    \A p \in SanitizedPairs :
        (OnlyVersionStyles /\ OneSuffixedVersion(p.raw)) =>
            p.out = RewriteEachOnce(p.raw, 1, settings.boldedVersions,
                                    settings.italicVersions, TRUE)

\* C30: for a non-empty ownerName and repoName, buildPullRequestUrl returns
\* https://github.com/<ownerName>/<repoName>/pull/<prNumber> for every finite
\* pull request number >= 1 and throws "The pull request number must be
\* greater than zero." for every finite number below 1.
C30_UrlForPositiveNumbers ==
    (/\ urlOutcome # Undefined
     /\ ~isNothing(urlCall[1].ownerName)
     /\ ~isNothing(urlCall[1].repoName)
     /\ urlCall[1].prNumber.kind = "finite") =>
        IF urlCall[1].prNumber.n >= 1
        THEN urlOutcome =
                Returned(<<"https://github.com/">> \o urlCall[1].ownerName[1]
                         \o <<"/">> \o urlCall[1].repoName[1] \o <<"/pull/">>
                         \o <<ToString(urlCall[1].prNumber.n)>>)
        ELSE urlOutcome = Threw(PrNumberMsg)

\* the position in jobTrace of the entry ev / by of the task i, 0 for none
TracePos(ev, by, i) ==
    IF \E p \in 1..Len(jobTrace) :
          jobTrace[p].ev = ev /\ jobTrace[p].by = by /\ jobTrace[p].task = i
    THEN CHOOSE p \in 1..Len(jobTrace) :
            jobTrace[p].ev = ev /\ jobTrace[p].by = by /\ jobTrace[p].task = i
    ELSE 0

StartPos(i) == TracePos("start", job[1].tasks[i].kind, i)

EndPos(i) == TracePos("end", job[1].tasks[i].kind, i)

PrePos(i) == TracePos("log", "preTask", i)

PostPos(i) == TracePos("log", "postTask", i)

PostJobPos == TracePos("log", "postJob", 0)

\* the positions of everything runJob did for the task i
TaskPositions(i) == {p \in 1..Len(jobTrace) : jobTrace[p].task = i}

\* the task i is over at the position p: its work has completed and its
\* post-execute message, if it has one, is printed
TaskOverBefore(i, p) ==
    LET task == job[1].tasks[i]
    IN /\ KnownTask(task) => EndPos(i) # 0 /\ EndPos(i) < p
       /\ ~isNothing(task.postExecuteMsg) => PostPos(i) # 0 /\ PostPos(i) < p

\* C29: runJob works strictly sequentially. At most one task is in flight;
\* the environment variables are set before anything is done for a task; for
\* each task the pre-execute message comes before the start of its work, the
\* completion of the work before its post-execute message, and everything of
\* a task before anything of a later task; the job's post-execute message is
\* the last thing printed, after the completion of every task.
C29_StrictlySequential ==
    jobPc # "idle" =>
        LET n == Len(job[1].tasks)
        IN /\ Cardinality(inFlight) <= 1
           /\ \A p \in 1..Len(jobTrace), i \in 1..n :
                 jobTrace[p].ev = "envSet" => \A q \in TaskPositions(i) : p < q
           /\ \A i \in 1..n :
                 LET task == job[1].tasks[i]
                 IN /\ (StartPos(i) # 0 /\ ~isNothing(task.preExecuteMsg)) =>
                          PrePos(i) # 0 /\ PrePos(i) < StartPos(i)
                    /\ EndPos(i) # 0 => StartPos(i) # 0 /\ StartPos(i) < EndPos(i)
                    /\ (PostPos(i) # 0 /\ KnownTask(task)) =>
                          EndPos(i) # 0 /\ EndPos(i) < PostPos(i)
                    /\ \A j \in (i + 1)..n : \A q \in TaskPositions(j) :
                          TaskOverBefore(i, q)
           /\ PostJobPos # 0 =>
                 /\ PostJobPos = Len(jobTrace)
                 /\ \A i \in 1..n : TaskOverBefore(i, PostJobPos)
           /\ (jobPc = "done" /\ ~isNothing(job[1].postExecuteMsg)) =>
                 PostJobPos # 0

C29_Witness ==
    /\ jobPc = "done"
    /\ Len(job[1].tasks) = 2
    /\ job[1].tasks[1].kind = "command"
    /\ job[1].tasks[2].kind = "function"
    /\ \A i \in 1..2 : PrePos(i) # 0 /\ EndPos(i) # 0 /\ PostPos(i) # 0
    /\ PostJobPos # 0
    /\ \E p \in 1..Len(jobTrace) : jobTrace[p].ev = "envSet"
    /\ \E p \in 1..Len(jobTrace) : jobTrace[p].by = "cmdError"

\* the notes of a call that worked on the items of its own repository
OwnNotes(c) ==
    LET s == calls[c].settings
        t == RepoTrackers(s.repoName)
        name == buildMilestoneName(s)
    IN Some(NotesOf(s, FilterAndSanitize(s, MilestoneItemsOf(t, name, t.issues)),
                    FilterAndSanitize(s, MilestoneItemsOf(t, name, t.prs))))

\* C23: of the generateNotes calls on one instance, every request of a call
\* is sent to the owner and repository named in the settings of that call,
\* and the notes a call returns are the notes for its own settings and the
\* items of its own repository.
C23_CallsDoNotShareState ==
    /\ \A q \in sent :
          /\ q.ownerName = calls[q.call].settings.ownerName
          /\ q.repoName = calls[q.call].settings.repoName
    /\ \A c \in Calls : calls[c].pc = "done" => calls[c].notes = OwnNotes(c)

====
